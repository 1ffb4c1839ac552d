-------------------------- MODULE CollectionProofs --------------------------
(***************************************************************************)
(* Proofs about the collection workflow, for any number of incidents,      *)
(* jobs, agents and database sessions, with and without S3 and failures.   *)
(***************************************************************************)
EXTENDS Collection, TLAPS

-----------------------------------------------------------------------------
(* The inductive invariant.  EvidenceBeforeSuccess is not inductive: it    *)
(* says nothing of a success that an open transaction is about to write,   *)
(* nor of an agent about to report one.                                    *)

\* An open transaction writes a success, and sends its caller on to report one,
\* only for a job whose evidence it stores or hands over itself, or that
\* already has.
TxnEvidence(t) ==
  /\ \A j \in Job : t.wJob[j] \in SUCCESSFUL_JOB_STATUSES
                      => j \in t.stores \cup vault \cup notified
  /\ \A j \in Job : t.caller = AgentRun(j) /\ t.ok = "report"
                      => j \in t.stores \cup t.notify \cup vault \cup notified
  /\ t.caller # NoClient => t.err # "report"
  /\ t.notify # {} => /\ t.stores = {}
                      /\ t.new = {}
                      /\ \A j \in Job : t.wJob[j] \notin SUCCESSFUL_JOB_STATUSES

EvidenceInv ==
  /\ TypeOK
  /\ EvidenceBeforeSuccess
  /\ \A s \in Session : TxnEvidence(tx[s])
  /\ \A j \in Job : at[AgentRun(j)] = "report" => j \in vault \cup notified

\* A transaction that leaves closed incidents alone.
LeavesClosed(t) ==
  \A i \in Incident : incident[i] = "CLOSED" => t.wInc[i] \in {Keep, "CLOSED"}

\* What every handler's first half does.
OpensSafely(s) == \E t \in Txn : Open(s, t) /\ TxnEvidence(t) /\ LeavesClosed(t)

-----------------------------------------------------------------------------
(* Every transaction a handler opens has the type of a transaction.        *)

LEMMA NoTxnType == NoTxn \in Txn
BY DEF NoTxn, Txn, KeepIncidents, KeepJobs, Keep, NoClient, Position

LEMMA KeepTypes ==
  /\ KeepIncidents \in [Incident -> IncidentStatus \cup {Keep}]
  /\ KeepJobs \in [Job -> JobStatus \cup {Keep}]
BY DEF KeepIncidents, KeepJobs

LEMMA WriteTypes ==
  /\ \A i \in Incident, v \in IncidentStatus :
       IncidentWrite(i, v) \in [Incident -> IncidentStatus \cup {Keep}]
  /\ \A j \in Job, v \in JobStatus :
       JobWrite(j, v) \in [Job -> JobStatus \cup {Keep}]
BY KeepTypes DEF IncidentWrite, JobWrite

LEMMA SyncWriteType ==
  ASSUME TypeOK, NEW i \in Incident, NEW js
  PROVE  SyncWrite(i, js) \in [Incident -> IncidentStatus \cup {Keep}]
<1>1. SyncStatus(i, js) \in IncidentStatus
  BY DEF SyncStatus, IncidentStatus, TypeOK
<1> QED
  BY <1>1, WriteTypes, KeepTypes DEF SyncWrite

LEMMA StatusTxnType ==
  ASSUME NEW c \in Client, NEW j \in Job, NEW v \in JobStatus,
         NEW w \in [Incident -> IncidentStatus \cup {Keep}],
         NEW ok \in Position, NEW err \in Position
  PROVE  /\ StatusTxn(c, j, v, w, ok, err) \in Txn
         /\ StatusTxn(c, j, v, w, ok, err).stores = {}
         /\ StatusTxn(c, j, v, w, ok, err).notify = {}
         /\ StatusTxn(c, j, v, w, ok, err).new = {}
         /\ StatusTxn(c, j, v, w, ok, err).wInc = w
         /\ StatusTxn(c, j, v, w, ok, err).wJob = JobWrite(j, v)
         /\ StatusTxn(c, j, v, w, ok, err).caller = c
         /\ StatusTxn(c, j, v, w, ok, err).ok = ok
         /\ StatusTxn(c, j, v, w, ok, err).err = err
BY NoTxnType, WriteTypes DEF StatusTxn, Txn, NoTxn

\* A status write touches one job, a closed incident is never written.
LEMMA WriteValues ==
  /\ \A i \in Incident, v \in IncidentStatus, k \in Incident :
       k # i => IncidentWrite(i, v)[k] = Keep
  /\ \A j \in Job, v \in JobStatus, k \in Job :
       JobWrite(j, v)[k] \in {Keep} \cup (IF k = j THEN {v} ELSE {})
BY DEF IncidentWrite, JobWrite, KeepIncidents, KeepJobs

LEMMA SyncWriteClosed ==
  ASSUME TypeOK, NEW i \in Incident, NEW js, NEW k \in Incident, incident[k] = "CLOSED"
  PROVE  SyncWrite(i, js)[k] = Keep
<1>1. SyncStatus(i, js) \in IncidentStatus
  BY DEF SyncStatus, IncidentStatus, TypeOK
<1>2. CASE i = k
  BY <1>2 DEF SyncWrite, KeepIncidents
<1>3. CASE i # k
  BY <1>1, <1>3, WriteValues DEF SyncWrite, KeepIncidents
<1> QED
  BY <1>2, <1>3

\* The handlers that write one job's status, some of which also store or hand
\* over that job's evidence.
LEMMA StatusOpens ==
  ASSUME NEW s \in Session, NEW c \in Client, NEW j \in Job, NEW v \in JobStatus,
         NEW t \in Txn, Open(s, t), t.wJob = JobWrite(j, v), t.new = {}, t.caller = c,
         LeavesClosed(t),
         v \in SUCCESSFUL_JOB_STATUSES => j \in t.stores \cup vault \cup notified,
         t.ok = "report" =>
           c = AgentRun(j) /\ j \in t.stores \cup t.notify \cup vault \cup notified,
         t.err # "report",
         t.notify # {} => t.stores = {} /\ v \notin SUCCESSFUL_JOB_STATUSES
  PROVE  OpensSafely(s)
<1>1. \A k \in Job : t.wJob[k] \in SUCCESSFUL_JOB_STATUSES
                        => k = j /\ v \in SUCCESSFUL_JOB_STATUSES
  BY WriteValues DEF SUCCESSFUL_JOB_STATUSES, Keep
<1>2. \A k \in Job : AgentRun(k) = AgentRun(j) => k = j
  BY DEF AgentRun
<1>3. TxnEvidence(t)
  BY <1>1, <1>2 DEF TxnEvidence
<1> QED
  BY <1>3 DEF OpensSafely

\* update_job_status_endpoint.
LEMMA ReportOpens ==
  ASSUME EvidenceInv, NEW s \in Session, NEW j \in Job, NEW v \in JobStatus,
         NEW ok \in Position, NEW err \in Position, Report(s, j, v, ok, err),
         v \in SUCCESSFUL_JOB_STATUSES => j \in vault \cup notified,
         ok # "report", err # "report"
  PROVE  OpensSafely(s)
<1> DEFINE i == IncidentOf[j]
           w == IF incident[i] = "CLOSED" THEN KeepIncidents
                ELSE IF v \in TERMINAL_JOB_STATUSES THEN SyncWrite(i, [job EXCEPT ![j] = v])
                ELSE IncidentWrite(i, "COLLECTION_IN_PROGRESS")
<1>1. i \in Incident /\ "COLLECTION_IN_PROGRESS" \in IncidentStatus
  BY CollectionAssumption DEF IncidentStatus
<1>2. w \in [Incident -> IncidentStatus \cup {Keep}]
  BY <1>1, KeepTypes, WriteTypes, SyncWriteType DEF EvidenceInv
<1>3. \A k \in Incident : incident[k] = "CLOSED" => w[k] \in {Keep, "CLOSED"}
  <2> SUFFICES ASSUME NEW k \in Incident, incident[k] = "CLOSED"
               PROVE  w[k] \in {Keep, "CLOSED"}
    OBVIOUS
  <2>1. KeepIncidents[k] = Keep
    BY DEF KeepIncidents
  <2>2. SyncWrite(i, [job EXCEPT ![j] = v])[k] = Keep
    BY <1>1, SyncWriteClosed DEF EvidenceInv
  <2>3. k # i => IncidentWrite(i, "COLLECTION_IN_PROGRESS")[k] = Keep
    BY <1>1, WriteValues
  <2> QED
    BY <2>1, <2>2, <2>3
<1>4. AgentRun(j) \in Client
  BY DEF AgentRun, Client
<1>5. Open(s, StatusTxn(AgentRun(j), j, v, w, ok, err))
  BY DEF Report
<1> HIDE DEF w
<1> DEFINE b == StatusTxn(AgentRun(j), j, v, w, ok, err)
<1>6. /\ b \in Txn /\ b.stores = {} /\ b.notify = {} /\ b.new = {} /\ b.wInc = w
      /\ b.wJob = JobWrite(j, v) /\ b.caller = AgentRun(j) /\ b.ok = ok /\ b.err = err
  BY <1>2, <1>4, StatusTxnType
<1>7. LeavesClosed(b)
  BY <1>3, <1>6 DEF LeavesClosed
<1> HIDE DEF b
<1> QED
  BY <1>4, <1>5, <1>6, <1>7, StatusOpens DEF b

\* A transaction nobody's run waits for, that writes no success and stores
\* nothing: the operator and scheduler requests.
LEMMA OperatorOpens ==
  ASSUME NEW s \in Session, NEW t \in Txn, Open(s, t),
         t.notify = {}, t.caller = NoClient,
         \A i \in Incident : incident[i] = "CLOSED" => t.wInc[i] \in {Keep, "CLOSED"},
         \A j \in Job : t.wJob[j] \notin SUCCESSFUL_JOB_STATUSES
  PROVE  OpensSafely(s)
<1>1. \A j \in Job : NoClient # AgentRun(j)
  BY DEF NoClient, AgentRun
<1>2. TxnEvidence(t) /\ LeavesClosed(t)
  BY <1>1 DEF TxnEvidence, LeavesClosed
<1> QED
  BY <1>2 DEF OpensSafely

\* Setting an incident that is not closed leaves the closed ones alone.
LEMMA WriteLeavesClosed ==
  ASSUME NEW i \in Incident, NEW v \in IncidentStatus, incident[i] # "CLOSED",
         NEW k \in Incident, incident[k] = "CLOSED"
  PROVE  IncidentWrite(i, v)[k] \in {Keep, "CLOSED"}
BY WriteValues

LEMMA KeepValues ==
  /\ \A j \in Job : KeepJobs[j] \notin SUCCESSFUL_JOB_STATUSES
  /\ \A i \in Incident : KeepIncidents[i] = Keep
BY DEF KeepJobs, KeepIncidents, Keep, SUCCESSFUL_JOB_STATUSES

LEMMA OperateOpens ==
  ASSUME EvidenceInv, NEW s \in Session, Operate(s)
  PROVE  OpensSafely(s)
<1> USE KeepTypes, KeepValues, NoTxnType
<1>0. "COLLECTION_IN_PROGRESS" \in IncidentStatus
  BY DEF IncidentStatus
<1>1. ASSUME NEW i \in Incident, StartCollection(s, i) \/ TriggerScheduledCollection(s, i)
      PROVE  OpensSafely(s)
  <2> DEFINE w == IncidentWrite(i, "COLLECTION_IN_PROGRESS")
  <2>1. incident[i] # "CLOSED"
    BY <1>1 DEF StartCollection, TriggerScheduledCollection
  <2>2. PICK n \in SUBSET Job : Open(s, [NoTxn EXCEPT !.wInc = w, !.new = n])
    BY <1>1 DEF StartCollection, TriggerScheduledCollection
  <2>3. /\ w \in [Incident -> IncidentStatus \cup {Keep}]
        /\ \A k \in Incident : incident[k] = "CLOSED" => w[k] \in {Keep, "CLOSED"}
    BY <1>0, <2>1, WriteTypes, WriteLeavesClosed
  <2> HIDE DEF w
  <2> DEFINE t == [NoTxn EXCEPT !.wInc = w, !.new = n]
  <2>4. t \in Txn /\ t.notify = {} /\ t.caller = NoClient /\ t.wInc = w /\ t.wJob = KeepJobs
    BY <2>3 DEF NoTxn, Txn
  <2> HIDE DEF t
  <2> QED
    BY <2>2, <2>3, <2>4, OperatorOpens DEF t
<1>2. ASSUME NEW i \in Incident, RetryFailedJobs(s, i)
      PROVE  OpensSafely(s)
  <2> DEFINE w == IncidentWrite(i, "COLLECTION_IN_PROGRESS")
             q == [j \in Job |-> IF j \in {k \in JobsOf(i, job) : job[k] \in {"failed", "cancelled"}}
                                 THEN "pending" ELSE Keep]
             t == [NoTxn EXCEPT !.wInc = w, !.wJob = q]
  <2>1. incident[i] # "CLOSED" /\ Open(s, t)
    BY <1>2 DEF RetryFailedJobs
  <2>2. /\ q \in [Job -> JobStatus \cup {Keep}]
        /\ \A j \in Job : q[j] \notin SUCCESSFUL_JOB_STATUSES
    BY DEF JobStatus, SUCCESSFUL_JOB_STATUSES, Keep
  <2>3. /\ w \in [Incident -> IncidentStatus \cup {Keep}]
        /\ \A k \in Incident : incident[k] = "CLOSED" => w[k] \in {Keep, "CLOSED"}
    BY <1>0, <2>1, WriteTypes, WriteLeavesClosed
  <2> HIDE DEF q, w
  <2>4. t \in Txn /\ t.notify = {} /\ t.caller = NoClient /\ t.wInc = w /\ t.wJob = q
    BY <2>2, <2>3 DEF NoTxn, Txn
  <2> HIDE DEF t
  <2> QED
    BY <2>1, <2>2, <2>3, <2>4, OperatorOpens
<1>3. ASSUME NEW i \in Incident, UpdateIncident(s, i)
      PROVE  OpensSafely(s)
  <2>1. PICK v \in VALID_TRANSITIONS[incident[i]] :
          Open(s, [NoTxn EXCEPT !.wInc = IncidentWrite(i, v)])
    BY <1>3 DEF UpdateIncident
  <2>2. incident[i] # "CLOSED" /\ v \in IncidentStatus
    <3>1. incident[i] \in IncidentStatus
      BY DEF EvidenceInv, TypeOK
    <3> QED
      BY <3>1 DEF VALID_TRANSITIONS, IncidentStatus
  <2> DEFINE w == IncidentWrite(i, v)
             t == [NoTxn EXCEPT !.wInc = w]
  <2>3. /\ w \in [Incident -> IncidentStatus \cup {Keep}]
        /\ \A k \in Incident : incident[k] = "CLOSED" => w[k] \in {Keep, "CLOSED"}
    BY <2>2, WriteTypes, WriteLeavesClosed
  <2> HIDE DEF w
  <2>4. t \in Txn /\ t.notify = {} /\ t.caller = NoClient /\ t.wInc = w /\ t.wJob = KeepJobs
    BY <2>3 DEF NoTxn, Txn
  <2>5. Open(s, t)
    BY <2>1 DEF w
  <2> HIDE DEF t
  <2> QED
    BY <2>3, <2>4, <2>5, OperatorOpens
<1>4. ASSUME NEW j \in Job, CancelJob(s, j)
      PROVE  OpensSafely(s)
  <2> DEFINE q == JobWrite(j, "cancelled")
             t == [NoTxn EXCEPT !.wJob = q]
  <2>1. "cancelled" \in JobStatus \ SUCCESSFUL_JOB_STATUSES
    BY DEF JobStatus, TERMINAL_JOB_STATUSES, FAILED_JOB_STATUSES, SUCCESSFUL_JOB_STATUSES
  <2>2. /\ q \in [Job -> JobStatus \cup {Keep}]
        /\ \A k \in Job : q[k] \notin SUCCESSFUL_JOB_STATUSES
    BY <2>1, WriteTypes, WriteValues DEF Keep, SUCCESSFUL_JOB_STATUSES
  <2>3. Open(s, t)
    BY <1>4 DEF CancelJob
  <2> HIDE DEF q
  <2>4. t \in Txn /\ t.notify = {} /\ t.caller = NoClient /\ t.wInc = KeepIncidents /\ t.wJob = q
    BY <2>2 DEF NoTxn, Txn
  <2> HIDE DEF t
  <2> QED
    BY <2>2, <2>3, <2>4, OperatorOpens
<1>5. ASSUME NEW j \in Job, CreateJob(s, j)
      PROVE  OpensSafely(s)
  <2> DEFINE t == [NoTxn EXCEPT !.new = {j}]
  <2>1. Open(s, t)
    BY <1>5 DEF CreateJob
  <2>2. /\ t \in Txn /\ t.notify = {} /\ t.caller = NoClient
        /\ t.wInc = KeepIncidents /\ t.wJob = KeepJobs
    BY DEF NoTxn, Txn
  <2> HIDE DEF t
  <2> QED
    BY <2>1, <2>2, OperatorOpens
<1> QED
  BY <1>1, <1>2, <1>3, <1>4, <1>5 DEF Operate

LEMMA StatusTypes ==
  /\ {"collecting", "collecting_n", "parsing", "processing"} \subseteq JobStatus
  /\ {"failed", "cancelled", "complete", "completed"} \subseteq JobStatus
  /\ {"collecting", "collecting_n", "parsing", "processing", "failed", "cancelled"}
       \cap SUCCESSFUL_JOB_STATUSES = {}
BY DEF JobStatus, TERMINAL_JOB_STATUSES, FAILED_JOB_STATUSES, SUCCESSFUL_JOB_STATUSES

LEMMA PositionTypes ==
  {"idle", "modules", "packing", "report", "fallback", "pipeline", "retry"} \subseteq Position
BY DEF Position

\* Evidence handed in: stored by the upload or the ingest, whole or not at all.
LEMMA StoreOpens ==
  ASSUME EvidenceInv, NEW s \in Session, NEW j \in Job,
         NEW c \in {AgentRun(j), WorkerTask(j)}, NEW v \in {"completed", "failed"}, NEW st \in SUBSET {j},
         NEW ok \in Position, NEW err \in Position,
         v = "completed" => st = {j},
         ok = "report" => c = AgentRun(j) /\ v = "completed",
         err # "report",
         Open(s, [StatusTxn(c, j, v, SyncWrite(IncidentOf[j], [job EXCEPT ![j] = v]), ok, err)
                  EXCEPT !.stores = st])
  PROVE  OpensSafely(s)
<1> DEFINE w == SyncWrite(IncidentOf[j], [job EXCEPT ![j] = v])
           b == StatusTxn(c, j, v, w, ok, err)
           t == [b EXCEPT !.stores = st]
<1>1. IncidentOf[j] \in Incident
  BY CollectionAssumption
<1>2. /\ w \in [Incident -> IncidentStatus \cup {Keep}]
      /\ \A k \in Incident : incident[k] = "CLOSED" => w[k] = Keep
  BY <1>1, SyncWriteType, SyncWriteClosed DEF EvidenceInv
<1>3. c \in Client /\ v \in JobStatus /\ st \in SUBSET Job
  BY StatusTypes DEF AgentRun, WorkerTask, Client
<1>4. Open(s, t)
  OBVIOUS
<1> HIDE DEF w
<1>5. /\ b \in Txn /\ b.notify = {} /\ b.new = {} /\ b.wInc = w
      /\ b.wJob = JobWrite(j, v) /\ b.caller = c /\ b.ok = ok /\ b.err = err
  BY <1>2, <1>3, StatusTxnType
<1> HIDE DEF b
<1>6. /\ t \in Txn /\ t.notify = {} /\ t.new = {} /\ t.wInc = w /\ t.stores = st
      /\ t.wJob = JobWrite(j, v) /\ t.caller = c /\ t.ok = ok /\ t.err = err
  BY <1>3, <1>5 DEF Txn
<1> HIDE DEF t
<1>7. LeavesClosed(t)
  BY <1>2, <1>6 DEF LeavesClosed
<1>8. v \in SUCCESSFUL_JOB_STATUSES => j \in t.stores
  BY <1>6, StatusTypes
<1> QED
  BY <1>3, <1>4, <1>6, <1>7, <1>8, StatusOpens

\* complete_job_upload hands the job's S3 object over.
LEMMA NotifyOpens ==
  ASSUME NEW s \in Session, NEW j \in Job, NotifyUploadComplete(s, j)
  PROVE  OpensSafely(s)
<1> DEFINE v == "processing"
           ok == "report"
           err == "fallback"
           b == StatusTxn(AgentRun(j), j, v, KeepIncidents, ok, err)
           t == [b EXCEPT !.notify = {j}]
<1>1. Open(s, t)
  BY DEF NotifyUploadComplete
<1>2. AgentRun(j) \in Client
  BY DEF AgentRun, Client
<1>3. /\ v \in JobStatus /\ v \notin SUCCESSFUL_JOB_STATUSES
      /\ ok \in Position /\ err \in Position /\ err # "report"
  BY DEF Position, JobStatus, SUCCESSFUL_JOB_STATUSES
<1> HIDE DEF v, ok, err
<1>4. /\ b \in Txn /\ b.stores = {} /\ b.new = {} /\ b.wInc = KeepIncidents
      /\ b.wJob = JobWrite(j, v) /\ b.caller = AgentRun(j) /\ b.ok = ok /\ b.err = err
  BY <1>2, <1>3, KeepTypes, StatusTxnType
<1> HIDE DEF b
<1>5. /\ t \in Txn /\ t.stores = {} /\ t.notify = {j} /\ t.new = {} /\ t.wInc = KeepIncidents
      /\ t.wJob = JobWrite(j, v) /\ t.caller = AgentRun(j) /\ t.ok = ok /\ t.err = err
  BY <1>4 DEF Txn
<1> HIDE DEF t
<1>6. LeavesClosed(t)
  BY <1>5, KeepValues DEF LeavesClosed
<1>7. t.stores = {} /\ j \in t.stores \cup t.notify \cup vault \cup notified
  BY <1>5
<1> QED
  BY <1>1, <1>2, <1>5, <1>6, <1>3, <1>7, StatusOpens

LEMMA AgentOpens ==
  ASSUME EvidenceInv, NEW s \in Session, NEW j \in Job,
         AgentRequest(s, j) \/ ReportProgress(s, j)
  PROVE  OpensSafely(s)
<1> USE StatusTypes, PositionTypes
<1>1. CASE ReportStart(s, j)
  BY <1>1, ReportOpens DEF ReportStart
<1>2. CASE ReportProgress(s, j)
  BY <1>2, ReportOpens DEF ReportProgress
<1>3. CASE ReportAbandoned(s, j)
  BY <1>3, ReportOpens DEF ReportAbandoned
<1>4. CASE FinishModules(s, j)
  BY <1>4, ReportOpens DEF FinishModules
<1>5. CASE ReportCancelled(s, j)
  BY <1>5, ReportOpens DEF ReportCancelled
<1>6. CASE ReportComplete(s, j)
  <2>1. j \in vault \cup notified
    BY <1>6 DEF ReportComplete, Ready, EvidenceInv
  <2> QED
    BY <1>6, <2>1, ReportOpens DEF ReportComplete
<1>7. CASE UploadEvidence(s, j)
  <2>1. {j} \in SUBSET {j}
    OBVIOUS
  <2> QED
    BY <1>7, <2>1, StoreOpens DEF UploadEvidence
<1>8. CASE NotifyUploadComplete(s, j)
  BY <1>8, NotifyOpens
<1> QED
  BY <1>1, <1>2, <1>3, <1>4, <1>5, <1>6, <1>7, <1>8 DEF AgentRequest

LEMMA WorkerOpens ==
  ASSUME EvidenceInv, NEW s \in Session, NEW j \in Job, Worker(s, j)
  PROVE  OpensSafely(s)
<1> USE PositionTypes
<1>1. CASE IngestUpload(s, j)
  <2>1. {j} \in SUBSET {j}
    OBVIOUS
  <2> QED
    BY ZenonT(60), <1>1, <2>1, StoreOpens DEF IngestUpload
<1>2. CASE FailIngest(s, j)
  <2>1. PICK st \in SUBSET ({j} \ vault) :
          Open(s, [StatusTxn(WorkerTask(j), j, "failed",
                             SyncWrite(IncidentOf[j], [job EXCEPT ![j] = "failed"]),
                             "retry", "retry")
                   EXCEPT !.stores = st])
    BY <1>2 DEF FailIngest
  <2>2. st \in SUBSET {j}
    OBVIOUS
  <2> QED
    BY ZenonT(60), <2>1, <2>2, StoreOpens
<1> QED
  BY <1>1, <1>2 DEF Worker

-----------------------------------------------------------------------------
(* Each kind of step preserves the invariant.                              *)

LEMMA NoTxnEvidence == TxnEvidence(NoTxn)
BY KeepValues DEF TxnEvidence, NoTxn, KeepJobs, Keep, SUCCESSFUL_JOB_STATUSES

LEMMA OpenStep ==
  ASSUME EvidenceInv, NEW s \in Session, OpensSafely(s)
  PROVE  EvidenceInv'
<1>1. PICK t \in Txn : Open(s, t) /\ TxnEvidence(t)
  BY DEF OpensSafely
<1> DEFINE u == [t EXCEPT !.open = TRUE]
<1>2. /\ u \in Txn /\ u.wJob = t.wJob /\ u.stores = t.stores /\ u.notify = t.notify
      /\ u.caller = t.caller /\ u.ok = t.ok /\ u.err = t.err /\ u.new = t.new
  BY DEF Txn
<1>3. tx' = [tx EXCEPT ![s] = u] /\ UNCHANGED <<incident, job, vault, notified, at>>
  BY <1>1 DEF Open
<1> HIDE DEF u
<1>4. TypeOK'
  BY <1>2, <1>3 DEF EvidenceInv, TypeOK
<1>5. TxnEvidence(u)
  BY <1>1, <1>2 DEF TxnEvidence
<1>6. \A r \in Session : tx'[r] = IF r = s THEN u ELSE tx[r]
  BY <1>3 DEF EvidenceInv, TypeOK
<1>7. \A r \in Session : TxnEvidence(tx'[r])
  BY <1>5, <1>6 DEF EvidenceInv
<1>8. \A r \in Session : TxnEvidence(tx[r])'
  BY <1>3, <1>7 DEF TxnEvidence
<1> QED
  BY <1>3, <1>4, <1>8 DEF EvidenceInv, EvidenceBeforeSuccess

\* The rows after a commit.
LEMMA WrittenType ==
  ASSUME TypeOK, NEW s \in Session
  PROVE  /\ Written(s) \in [Job -> JobStatus \cup {"absent"}]
         /\ \A j \in Job : Written(s)[j] \in SUCCESSFUL_JOB_STATUSES
              => \/ job[j] \in SUCCESSFUL_JOB_STATUSES
                 \/ tx[s].wJob[j] \in SUCCESSFUL_JOB_STATUSES
<1>1. tx[s].wJob \in [Job -> JobStatus \cup {Keep}] /\ "pending" \in JobStatus
  BY DEF TypeOK, Txn, JobStatus
<1> QED
  BY <1>1 DEF Written, TypeOK, SUCCESSFUL_JOB_STATUSES

\* A reply moves its caller's run, and nobody else's.
LEMMA ReplyMoves ==
  ASSUME TypeOK, NEW s \in Session, NEW p \in Position, Reply(s, p)
  PROVE  /\ at' \in [Client -> Position]
         /\ \A j \in Job : at'[AgentRun(j)] =
              IF tx[s].caller = AgentRun(j) THEN p ELSE at[AgentRun(j)]
<1>1. tx[s].caller \in Client \cup {NoClient} /\ at \in [Client -> Position]
  BY DEF TypeOK, Txn
<1>2. \A j \in Job : AgentRun(j) \in Client /\ AgentRun(j) # NoClient
  BY DEF AgentRun, Client, NoClient
<1> QED
  BY <1>1, <1>2 DEF Reply

LEMMA CommitStep ==
  ASSUME EvidenceInv, NEW s \in Session, Commit(s)
  PROVE  EvidenceInv'
<1>1. tx[s] \in Txn /\ TxnEvidence(tx[s])
  BY DEF EvidenceInv, TypeOK
<1>2. /\ tx[s].ok \in Position /\ tx[s].stores \subseteq Job
      /\ tx[s].wInc \in [Incident -> IncidentStatus \cup {Keep}]
  BY <1>1 DEF Txn
<1>3. /\ tx' = [tx EXCEPT ![s] = NoTxn] /\ vault' = vault \cup tx[s].stores
      /\ notified' = notified /\ job' = Written(s) /\ tx[s].notify = {}
      /\ incident' = [i \in Incident |->
                        IF tx[s].wInc[i] = Keep THEN incident[i] ELSE tx[s].wInc[i]]
  BY DEF Commit
<1>4. /\ at' \in [Client -> Position]
      /\ \A j \in Job : at'[AgentRun(j)] =
           IF tx[s].caller = AgentRun(j) THEN tx[s].ok ELSE at[AgentRun(j)]
  BY <1>2, ReplyMoves DEF Commit, EvidenceInv
<1>5. TypeOK'
  <2>1. incident' \in [Incident -> IncidentStatus]
    BY <1>2, <1>3 DEF EvidenceInv, TypeOK
  <2>2. vault' \subseteq Job /\ notified' \subseteq Job
    BY <1>2, <1>3 DEF EvidenceInv, TypeOK
  <2>3. tx' \in [Session -> Txn]
    BY <1>3, NoTxnType DEF EvidenceInv, TypeOK
  <2> QED
    BY <1>3, <1>4, <2>1, <2>2, <2>3, WrittenType DEF EvidenceInv, TypeOK
<1>6. EvidenceBeforeSuccess'
  BY <1>1, <1>3, WrittenType DEF EvidenceInv, EvidenceBeforeSuccess, TxnEvidence
<1>7. \A r \in Session : tx'[r] = NoTxn \/ tx'[r] = tx[r]
  BY <1>3 DEF EvidenceInv, TypeOK
<1>8. \A r \in Session : TxnEvidence(tx[r])'
  BY <1>3, <1>7, NoTxnEvidence DEF EvidenceInv, TxnEvidence
<1>9. \A j \in Job : at'[AgentRun(j)] = "report" => j \in vault' \cup notified'
  BY <1>1, <1>3, <1>4 DEF EvidenceInv, TxnEvidence
<1> QED
  BY <1>5, <1>6, <1>8, <1>9 DEF EvidenceInv, AgentRun

\* A transaction that lost its caller, or has only a failure left to write, owes
\* no more than before.
LEMMA FewerDuties ==
  ASSUME NEW t \in Txn, TxnEvidence(t)
  PROVE  [t EXCEPT !.caller = NoClient] \in Txn /\ TxnEvidence([t EXCEPT !.caller = NoClient])
<1> DEFINE u == [t EXCEPT !.caller = NoClient]
<1>1. /\ u \in Txn /\ u.caller = NoClient /\ u.wJob = t.wJob /\ u.stores = t.stores
      /\ u.notify = t.notify /\ u.new = t.new
  BY DEF Txn
<1>2. \A j \in Job : NoClient # AgentRun(j)
  BY DEF NoClient, AgentRun
<1> HIDE DEF u
<1>3. TxnEvidence(u)
  BY <1>1, <1>2 DEF TxnEvidence
<1> QED
  BY <1>1, <1>3 DEF u

\* The dispatch that failed: only the write of "failed" is left.
LEMMA DispatchFailed ==
  ASSUME NEW t \in Txn, TxnEvidence(t), t.notify # {},
         NEW u, u = [t EXCEPT !.notify = {}, !.ok = t.err,
                              !.wJob = [j \in Job |-> IF j \in t.notify
                                                      THEN "failed" ELSE Keep]]
  PROVE  u \in Txn /\ TxnEvidence(u)
<1> DEFINE q == [j \in Job |-> IF j \in t.notify THEN "failed" ELSE Keep]
<1>1. /\ q \in [Job -> JobStatus \cup {Keep}]
      /\ \A j \in Job : q[j] \notin SUCCESSFUL_JOB_STATUSES
  BY DEF JobStatus, TERMINAL_JOB_STATUSES, FAILED_JOB_STATUSES, SUCCESSFUL_JOB_STATUSES, Keep
<1>2. u = [t EXCEPT !.notify = {}, !.ok = t.err, !.wJob = q]
  OBVIOUS
<1> HIDE DEF q
<1>3. t.err \in Position
  BY DEF Txn
<1>4. /\ u \in Txn /\ u.wJob = q /\ u.notify = {} /\ u.ok = t.err /\ u.err = t.err
      /\ u.caller = t.caller
  BY <1>1, <1>2, <1>3 DEF Txn
<1>5. \A j \in Job : NoClient # AgentRun(j)
  BY DEF NoClient, AgentRun
<1> QED
  BY <1>1, <1>4, <1>5 DEF TxnEvidence

LEMMA CommitNotifyStep ==
  ASSUME EvidenceInv, NEW s \in Session, CommitNotify(s)
  PROVE  EvidenceInv'
<1>1. tx[s] \in Txn /\ TxnEvidence(tx[s]) /\ tx[s].notify # {}
  BY DEF EvidenceInv, TypeOK, CommitNotify
<1>2. tx[s].ok \in Position /\ tx[s].notify \subseteq Job
  BY <1>1 DEF Txn
<1>3. /\ vault' = vault /\ incident' = incident
      /\ notified' \in {notified, notified \cup tx[s].notify}
      /\ job' = Written(s)
  BY DEF CommitNotify
<1>4. EvidenceBeforeSuccess'
  BY <1>1, <1>3, WrittenType DEF EvidenceInv, EvidenceBeforeSuccess, TxnEvidence
<1>5. /\ incident' \in [Incident -> IncidentStatus] /\ vault' \subseteq Job
      /\ notified' \subseteq Job /\ job' \in [Job -> JobStatus \cup {"absent"}]
  BY <1>2, <1>3, WrittenType DEF EvidenceInv, TypeOK
<1>6. CASE /\ at' = [c \in Client |->
                       IF c[1] = "worker" /\ c[2] \in tx[s].notify THEN "queued"
                       ELSE IF c = tx[s].caller THEN tx[s].ok ELSE at[c]]
           /\ tx' = [tx EXCEPT ![s] = NoTxn]
           /\ notified' = notified \cup tx[s].notify
  <2>1. at' \in [Client -> Position]
    BY <1>2, <1>6 DEF EvidenceInv, TypeOK, Position
  <2>2. tx' \in [Session -> Txn]
    BY <1>6, NoTxnType DEF EvidenceInv, TypeOK
  <2>3. \A r \in Session : tx'[r] = NoTxn \/ tx'[r] = tx[r]
    BY <1>6 DEF EvidenceInv, TypeOK
  <2>4. \A r \in Session : TxnEvidence(tx[r])'
    BY <1>3, <2>3, NoTxnEvidence DEF EvidenceInv, TxnEvidence
  <2>5. \A j \in Job : AgentRun(j) \in Client /\ AgentRun(j)[1] # "worker"
    BY DEF AgentRun, Client
  <2>6. \A j \in Job : at'[AgentRun(j)] =
          IF AgentRun(j) = tx[s].caller THEN tx[s].ok ELSE at[AgentRun(j)]
    BY <1>6, <2>5
  <2>7. \A j \in Job : at'[AgentRun(j)] = "report" => j \in vault' \cup notified'
    BY <1>1, <1>3, <1>6, <2>6 DEF EvidenceInv, TxnEvidence
  <2> QED
    BY <1>4, <1>5, <2>1, <2>2, <2>4, <2>7 DEF EvidenceInv, TypeOK, AgentRun
<1>7. CASE /\ tx' = [tx EXCEPT ![s] =
                       [@ EXCEPT !.notify = {}, !.ok = tx[s].err,
                                 !.wJob = [j \in Job |-> IF j \in tx[s].notify
                                                         THEN "failed" ELSE Keep]]]
           /\ at' = at /\ notified' = notified
  <2> DEFINE u == [tx[s] EXCEPT !.notify = {}, !.ok = tx[s].err,
                                !.wJob = [j \in Job |-> IF j \in tx[s].notify
                                                        THEN "failed" ELSE Keep]]
  <2>1. u \in Txn /\ TxnEvidence(u)
    BY <1>1, DispatchFailed
  <2>2. tx' = [tx EXCEPT ![s] = u]
    BY <1>7
  <2> HIDE DEF u
  <2>3. tx' \in [Session -> Txn]
    BY <2>1, <2>2 DEF EvidenceInv, TypeOK
  <2>4. \A r \in Session : tx'[r] = IF r = s THEN u ELSE tx[r]
    BY <2>2 DEF EvidenceInv, TypeOK
  <2>5. \A r \in Session : TxnEvidence(tx'[r])
    BY <2>1, <2>4 DEF EvidenceInv
  <2>6. \A r \in Session : TxnEvidence(tx[r])'
    BY <1>3, <1>7, <2>5 DEF TxnEvidence
  <2> QED
    BY <1>3, <1>4, <1>5, <1>7, <2>3, <2>6 DEF EvidenceInv, TypeOK
<1> QED
  BY <1>6, <1>7 DEF CommitNotify

\* A step that only replaces transactions by ones that owe no more, and sends no
\* run on to report a success.
LEMMA QuietStep ==
  ASSUME EvidenceInv, UNCHANGED <<incident, vault, notified>>,
         job' \in [Job -> JobStatus \cup {"absent"}],
         \A j \in Job : job'[j] \in SUCCESSFUL_JOB_STATUSES => job'[j] = job[j],
         tx' \in [Session -> Txn], \A r \in Session : TxnEvidence(tx'[r]),
         at' \in [Client -> Position],
         \A j \in Job : at'[AgentRun(j)] = "report" => at[AgentRun(j)] = "report"
  PROVE  EvidenceInv'
<1>1. TypeOK'
  BY DEF EvidenceInv, TypeOK
<1>2. \A r \in Session : TxnEvidence(tx[r])'
  BY DEF TxnEvidence
<1>3. EvidenceBeforeSuccess'
  BY DEF EvidenceInv, EvidenceBeforeSuccess
<1>4. \A j \in Job : at'[AgentRun(j)] = "report" => j \in vault' \cup notified'
  BY DEF EvidenceInv
<1> QED
  BY <1>1, <1>2, <1>3, <1>4 DEF EvidenceInv, AgentRun

LEMMA RollbackStep ==
  ASSUME EvidenceInv, NEW s \in Session, Rollback(s)
  PROVE  EvidenceInv'
<1>1. tx[s] \in Txn /\ TxnEvidence(tx[s])
  BY DEF EvidenceInv, TypeOK
<1>2. tx[s].err \in Position /\ \A j \in Job : AgentRun(j) # NoClient
  BY <1>1 DEF Txn, AgentRun, NoClient
<1>3. tx' \in [Session -> Txn] /\ \A r \in Session : tx'[r] = NoTxn \/ tx'[r] = tx[r]
  BY NoTxnType DEF Rollback, EvidenceInv, TypeOK
<1>4. \A r \in Session : TxnEvidence(tx'[r])
  BY <1>3, NoTxnEvidence DEF EvidenceInv
<1>5. /\ at' \in [Client -> Position]
      /\ \A j \in Job : at'[AgentRun(j)] =
           IF tx[s].caller = AgentRun(j) THEN tx[s].err ELSE at[AgentRun(j)]
  BY <1>2, ReplyMoves DEF Rollback, EvidenceInv
<1>6. \A j \in Job : at'[AgentRun(j)] = "report" => at[AgentRun(j)] = "report"
  BY <1>1, <1>2, <1>5 DEF TxnEvidence
<1>7. UNCHANGED <<incident, job, vault, notified>>
  BY DEF Rollback
<1> QED
  BY <1>3, <1>4, <1>5, <1>6, <1>7, QuietStep DEF EvidenceInv, TypeOK

LEMMA LoseReplyStep ==
  ASSUME EvidenceInv, NEW s \in Session, LoseReply(s)
  PROVE  EvidenceInv'
<1>1. tx[s] \in Txn /\ TxnEvidence(tx[s]) /\ tx[s].caller # NoClient
  BY DEF EvidenceInv, TypeOK, LoseReply
<1>2. tx[s].caller \in Client /\ tx[s].err \in Position /\ tx[s].err # "report"
  BY <1>1 DEF Txn, TxnEvidence
<1> DEFINE u == [tx[s] EXCEPT !.caller = NoClient]
<1>3. u \in Txn /\ TxnEvidence(u)
  BY <1>1, FewerDuties
<1>4. tx' = [tx EXCEPT ![s] = u] /\ at' = [at EXCEPT ![tx[s].caller] = tx[s].err]
  BY DEF LoseReply
<1> HIDE DEF u
<1>5. tx' \in [Session -> Txn] /\ \A r \in Session : tx'[r] = u \/ tx'[r] = tx[r]
  BY <1>3, <1>4 DEF EvidenceInv, TypeOK
<1>6. \A r \in Session : TxnEvidence(tx'[r])
  BY <1>3, <1>5 DEF EvidenceInv
<1>7. at' \in [Client -> Position]
  BY <1>2, <1>4 DEF EvidenceInv, TypeOK
<1>8. \A c \in Client : at'[c] = "report" => at[c] = "report"
  BY <1>2, <1>4 DEF EvidenceInv, TypeOK
<1>9. \A j \in Job : AgentRun(j) \in Client
  BY DEF AgentRun, Client
<1>10. UNCHANGED <<incident, job, vault, notified>>
  BY DEF LoseReply
<1> QED
  BY <1>5, <1>6, <1>7, <1>8, <1>9, <1>10, QuietStep DEF EvidenceInv, TypeOK

LEMMA ClaimStep ==
  ASSUME EvidenceInv, NEW j \in Job, Claim(j)
  PROVE  EvidenceInv'
<1>1. "assigned" \in JobStatus /\ "assigned" \notin SUCCESSFUL_JOB_STATUSES
  BY DEF JobStatus, SUCCESSFUL_JOB_STATUSES
<1>2. job' = [job EXCEPT ![j] = "assigned"] /\ UNCHANGED <<incident, vault, notified, tx>>
  BY DEF Claim
<1>3. /\ job' \in [Job -> JobStatus \cup {"absent"}]
      /\ \A k \in Job : job'[k] \in SUCCESSFUL_JOB_STATUSES => job'[k] = job[k]
  BY <1>1, <1>2 DEF EvidenceInv, TypeOK
<1>4. \A k \in Job : AgentRun(k) \in Client
  BY DEF AgentRun, Client
<1>5. /\ at' \in [Client -> Position]
      /\ \A c \in Client : at'[c] = "report" => at[c] = "report"
  BY <1>4 DEF Claim, EvidenceInv, TypeOK, Position
<1> QED
  BY <1>2, <1>3, <1>4, <1>5, QuietStep DEF EvidenceInv, TypeOK

\* A client moves on by itself, not to the report of a success.
LEMMA MoveStep ==
  ASSUME EvidenceInv, NEW c \in Client, NEW p \in Position, p # "report",
         at' = [at EXCEPT ![c] = p], UNCHANGED <<incident, job, vault, notified, tx>>
  PROVE  EvidenceInv'
<1>1. /\ at' \in [Client -> Position]
      /\ \A d \in Client : at'[d] = "report" => at[d] = "report"
  BY DEF EvidenceInv, TypeOK
<1>2. \A k \in Job : AgentRun(k) \in Client
  BY DEF AgentRun, Client
<1> QED
  BY <1>1, <1>2, QuietStep DEF EvidenceInv, TypeOK

LEMMA LocalStep ==
  ASSUME EvidenceInv, NEW j \in Job, AgentLocal(j) \/ FinishTask(j)
  PROVE  EvidenceInv'
<1>1. AgentRun(j) \in Client /\ WorkerTask(j) \in Client
  BY DEF AgentRun, WorkerTask, Client
<1>2. CASE CheckCancellation(j)
  <2> DEFINE b == job[j] \in {"cancelled", "canceled"}
  <2>1. \A p \in {"modules", "packing", "zipped"} :
          AfterCheck(p, b) \in Position /\ AfterCheck(p, b) # "report"
    BY DEF AfterCheck, Position
  <2>2. PICK p \in {"modules", "packing", "zipped"} :
          at' = [at EXCEPT ![AgentRun(j)] = AfterCheck(p, b)]
    BY <1>2 DEF CheckCancellation
  <2>3. UNCHANGED <<incident, job, vault, notified, tx>>
    BY <1>2 DEF CheckCancellation
  <2> HIDE DEF b
  <2> QED
    BY <1>1, <2>1, <2>2, <2>3, MoveStep
<1>3. CASE CreateEvidenceZip(j)
  <2>1. "zipped" \in Position
    BY DEF Position
  <2> QED
    BY <1>1, <1>3, <2>1, MoveStep DEF CreateEvidenceZip
<1>4. CASE FinishTask(j)
  <2>1. {"idle", "queued", "retry"} \subseteq Position
    BY DEF Position
  <2>2. PICK p \in {"idle", "queued", "retry"} : at' = [at EXCEPT ![WorkerTask(j)] = p]
    BY <1>4 DEF FinishTask
  <2>3. UNCHANGED <<incident, job, vault, notified, tx>>
    BY <1>4 DEF FinishTask
  <2> QED
    BY <1>1, <2>1, <2>2, <2>3, MoveStep
<1> QED
  BY <1>2, <1>3, <1>4 DEF AgentLocal

LEMMA AbortRunStep ==
  ASSUME EvidenceInv, NEW j \in Job, AbortRun(j)
  PROVE  EvidenceInv'
<1>1. AgentRun(j) \in Client /\ "idle" \in Position
  BY DEF AgentRun, Client, Position
<1>2. /\ at' = [at EXCEPT ![AgentRun(j)] = "idle"]
      /\ tx' = [s \in Session |-> IF tx[s].caller = AgentRun(j)
                                  THEN [tx[s] EXCEPT !.caller = NoClient] ELSE tx[s]]
      /\ UNCHANGED <<incident, job, vault, notified>>
  BY DEF AbortRun
<1>3. /\ at' \in [Client -> Position]
      /\ \A c \in Client : at'[c] = "report" => at[c] = "report"
  BY <1>1, <1>2 DEF EvidenceInv, TypeOK
<1>4. \A s \in Session : tx[s] \in Txn /\ TxnEvidence(tx[s])
  BY DEF EvidenceInv, TypeOK
<1>5. \A s \in Session : /\ [tx[s] EXCEPT !.caller = NoClient] \in Txn
                         /\ TxnEvidence([tx[s] EXCEPT !.caller = NoClient])
  BY <1>4, FewerDuties
<1>6. \A s \in Session : \/ tx'[s] = tx[s]
                         \/ tx'[s] = [tx[s] EXCEPT !.caller = NoClient]
  BY <1>2
<1>7. tx' \in [Session -> Txn] /\ \A s \in Session : TxnEvidence(tx'[s])
  BY <1>2, <1>4, <1>5, <1>6
<1>8. \A k \in Job : AgentRun(k) \in Client
  BY DEF AgentRun, Client
<1> QED
  BY <1>2, <1>3, <1>7, <1>8, QuietStep DEF EvidenceInv, TypeOK

-----------------------------------------------------------------------------
(* The theorems.                                                           *)

LEMMA EvidenceInit == Init => EvidenceInv
<1> SUFFICES ASSUME Init PROVE EvidenceInv
  OBVIOUS
<1>1. TypeOK
  BY NoTxnType DEF Init, TypeOK, IncidentStatus, Position
<1>2. \A s \in Session : TxnEvidence(tx[s])
  BY NoTxnEvidence DEF Init
<1>3. \A j \in Job : at[AgentRun(j)] = "idle" /\ job[j] = "absent"
  BY DEF Init, AgentRun, Client
<1> QED
  BY <1>1, <1>2, <1>3 DEF EvidenceInv, EvidenceBeforeSuccess, SUCCESSFUL_JOB_STATUSES

LEMMA EvidenceNext == EvidenceInv /\ [Next]_vars => EvidenceInv'
<1> SUFFICES ASSUME EvidenceInv, [Next]_vars PROVE EvidenceInv'
  OBVIOUS
<1>1. ASSUME NEW s \in Session, Operate(s) PROVE EvidenceInv'
  BY <1>1, OperateOpens, OpenStep
<1>2. ASSUME NEW s \in Session, Finish(s) \/ LoseReply(s) PROVE EvidenceInv'
  BY <1>2, CommitStep, CommitNotifyStep, RollbackStep, LoseReplyStep DEF Finish
<1>3. ASSUME NEW s \in Session, NEW j \in Job, AgentRequest(s, j) \/ ReportProgress(s, j)
      PROVE  EvidenceInv'
  BY <1>3, AgentOpens, OpenStep
<1>4. ASSUME NEW s \in Session, NEW j \in Job, Worker(s, j) PROVE EvidenceInv'
  BY <1>4, WorkerOpens, OpenStep
<1>5. ASSUME NEW j \in Job, Claim(j) PROVE EvidenceInv'
  BY <1>5, ClaimStep
<1>6. ASSUME NEW j \in Job, AgentLocal(j) \/ FinishTask(j) PROVE EvidenceInv'
  BY <1>6, LocalStep
<1>7. ASSUME NEW j \in Job, AbortRun(j) PROVE EvidenceInv'
  BY <1>7, AbortRunStep
<1>8. CASE UNCHANGED vars
  BY <1>8 DEF vars, EvidenceInv, TypeOK, EvidenceBeforeSuccess, TxnEvidence, AgentRun
<1> QED
  BY <1>1, <1>2, <1>3, <1>4, <1>5, <1>6, <1>7, <1>8 DEF Next

THEOREM Invariance == Spec => []EvidenceInv
BY EvidenceInit, EvidenceNext, PTL DEF Spec

\* Every row, transaction and client position keeps its type, whatever requests
\* interleave and fail.
THEOREM TypeCorrect == Spec => []TypeOK
<1>1. EvidenceInv => TypeOK
  BY DEF EvidenceInv
<1> QED
  BY <1>1, Invariance, PTL

\* No job ever counts as successful without its evidence: neither a lost reply, a
\* retried job, a killed agent, a failed dispatch nor a half-failed ingest gets
\* one there (agents.py 649, worker.py 306, executor.go 403-417).
THEOREM EvidenceFirst == Spec => []EvidenceBeforeSuccess
<1>1. EvidenceInv => EvidenceBeforeSuccess
  BY DEF EvidenceInv
<1> QED
  BY <1>1, Invariance, PTL

\* What ClosedStays says of one step.
ClosedStep ==
  \A i \in Incident : incident[i] = "CLOSED" /\ Drained(i)
                        => incident'[i] = "CLOSED" /\ Drained(i)'

\* The first half of every handler that reads CLOSED leaves the incident drained.
LEMMA OpenKeepsClosed ==
  ASSUME EvidenceInv, NEW s \in Session, OpensSafely(s)
  PROVE  ClosedStep
<1>1. PICK t \in Txn : Open(s, t) /\ LeavesClosed(t)
  BY DEF OpensSafely
<1>2. \A r \in Session : tx'[r].wInc = IF r = s THEN t.wInc ELSE tx[r].wInc
  BY <1>1 DEF Open, EvidenceInv, TypeOK, Txn
<1>3. incident' = incident
  BY <1>1 DEF Open
<1> QED
  BY <1>1, <1>2, <1>3 DEF ClosedStep, Drained, LeavesClosed

\* A step that keeps the incidents and lets no transaction write more of them.
LEMMA UnwrittenKeepsClosed ==
  ASSUME incident' = incident,
         \A r \in Session : tx'[r].wInc \in {tx[r].wInc, KeepIncidents}
  PROVE  ClosedStep
BY KeepValues DEF ClosedStep, Drained

LEMMA NextKeepsClosed ==
  ASSUME EvidenceInv, [Next]_vars
  PROVE  ClosedStep
<1>0. \A r \in Session : tx[r] \in Txn
  BY DEF EvidenceInv, TypeOK
<1>1. ASSUME NEW s \in Session, Operate(s) PROVE ClosedStep
  BY <1>1, OperateOpens, OpenKeepsClosed
<1>2. ASSUME NEW s \in Session, Commit(s) PROVE ClosedStep
  <2>1. \A r \in Session : tx'[r] = IF r = s THEN NoTxn ELSE tx[r]
    BY <1>2 DEF Commit, EvidenceInv, TypeOK
  <2>2. \A r \in Session : tx'[r].wInc = IF r = s THEN KeepIncidents ELSE tx[r].wInc
    BY <2>1 DEF NoTxn
  <2>3. \A i \in Incident : incident'[i] = IF tx[s].wInc[i] = Keep THEN incident[i]
                                           ELSE tx[s].wInc[i]
    BY <1>2 DEF Commit
  <2> QED
    BY <2>2, <2>3, KeepValues DEF ClosedStep, Drained
<1>3. ASSUME NEW s \in Session, CommitNotify(s) PROVE ClosedStep
  <2>1. \A r \in Session : tx'[r].wInc \in {tx[r].wInc, KeepIncidents}
    <3>1. tx \in [Session -> Txn]
      BY DEF EvidenceInv, TypeOK
    <3>2. CASE tx' = [tx EXCEPT ![s] = NoTxn]
      BY <3>1, <3>2 DEF NoTxn
    <3>3. CASE tx' = [tx EXCEPT ![s] =
                        [@ EXCEPT !.notify = {}, !.ok = tx[s].err,
                                  !.wJob = [j \in Job |-> IF j \in tx[s].notify
                                                          THEN "failed" ELSE Keep]]]
      BY <3>1, <3>3 DEF Txn
    <3> QED
      BY <1>3, <3>2, <3>3 DEF CommitNotify
  <2> QED
    BY <1>3, <2>1, UnwrittenKeepsClosed DEF CommitNotify
<1>4. ASSUME NEW s \in Session, Rollback(s) \/ LoseReply(s) PROVE ClosedStep
  <2>1. \A r \in Session : tx'[r].wInc \in {tx[r].wInc, KeepIncidents}
    BY <1>0, <1>4 DEF Rollback, LoseReply, NoTxn, EvidenceInv, TypeOK, Txn
  <2> QED
    BY <1>4, <2>1, UnwrittenKeepsClosed DEF Rollback, LoseReply
<1>5. ASSUME NEW s \in Session, NEW j \in Job,
             AgentRequest(s, j) \/ ReportProgress(s, j) \/ Worker(s, j)
      PROVE  ClosedStep
  BY <1>5, AgentOpens, WorkerOpens, OpenKeepsClosed
<1>6. ASSUME NEW j \in Job, Claim(j) \/ AgentLocal(j) \/ FinishTask(j) PROVE ClosedStep
  <2>1. incident' = incident /\ tx' = tx
    BY <1>6 DEF Claim, AgentLocal, CheckCancellation, CreateEvidenceZip, FinishTask
  <2> QED
    BY <2>1, UnwrittenKeepsClosed
<1>7. ASSUME NEW j \in Job, AbortRun(j) PROVE ClosedStep
  <2>1. \A r \in Session : tx'[r].wInc = tx[r].wInc
    BY <1>0, <1>7 DEF AbortRun, Txn
  <2> QED
    BY <1>7, <2>1, UnwrittenKeepsClosed DEF AbortRun
<1>8. CASE UNCHANGED vars
  BY <1>8, UnwrittenKeepsClosed DEF vars
<1> QED
  BY <1>1, <1>2, <1>3, <1>4, <1>5, <1>6, <1>7, <1>8 DEF Next, Finish

\* No handler that begins once an incident is CLOSED reopens it: only requests
\* that read it before can, and once they have ended the incident is closed for
\* good (job.py 36, agents.py 321, incidents.py 161, 496, 544, worker.py 444).
THEOREM ClosedForGood == Spec => ClosedStays
<1>1. EvidenceInv /\ [Next]_vars => ClosedStep
  BY NextKeepsClosed
<1>2. EvidenceInv /\ [Next]_vars
        => [\A i \in Incident : incident[i] = "CLOSED" /\ Drained(i)
               => incident'[i] = "CLOSED" /\ Drained(i)']_vars
  BY <1>1 DEF ClosedStep
<1> QED
  BY <1>2, Invariance, PTL DEF Spec, ClosedStays

=============================================================================
