------------------------- MODULE ProcessingPipeline -------------------------
(***************************************************************************)
(* The processing of collected evidence.  A request reserves the           *)
(* processing_jobs row of an evidence job and publishes a Celery message;  *)
(* a worker takes the message, locks the workspace of the job with flock   *)
(* and runs the phases, each of which writes its output and commits.  Some *)
(* phases replace what an earlier run left, others add to it or, when they *)
(* are not configured, keep it.  Celery acknowledges late: the message of  *)
(* a killed worker comes back, and a failed pipeline is tried once more,   *)
(* but not one that has run out of time.  The evidence itself is never     *)
(* written here.                                                           *)
(***************************************************************************)
EXTENDS Naturals

CONSTANTS
  Job,         \* evidence jobs, successfully collected
  Task,        \* requests for a pipeline run, each with its message
  Reader,      \* super timeline builds: they take the same lock
  None,        \* no row, no file, nobody
  Arrivals,    \* how evidence arrives: "upload", "ingest"
  Outcomes,    \* how a stage may end: "ran", "failed", "skipped"
  Faults,      \* broker down, request process killed, time limit reached
  MaxCrashes   \* bound: killed workers

ASSUME PipelineAssumption ==
  /\ Task \cap Reader = {} /\ None \notin Task \cup Reader
  /\ None \notin {"PENDING", "RUNNING", "DONE", "PARTIAL", "FAILED"}
  /\ Arrivals \subseteq {"upload", "ingest"}
  /\ Outcomes \subseteq {"ran", "failed", "skipped"}
  /\ Faults \in BOOLEAN /\ MaxCrashes \in Nat

VARIABLES
  status,   \* per job: processing_jobs.status, committed
  out,      \* per job and output: what it holds of the latest run and of earlier
            \* ones, nothing at all if it does not exist
  lock,     \* per job: who holds .pipeline.lock
  arrival,  \* per job: how its evidence arrives, has arrived once its run is started
  at,       \* per task: where its request or its worker is
  msg,      \* per task: its message, from the request to the end of the task
  seen,     \* per task: the status its request has loaded
  crashes   \* workers killed so far

vars == <<status, out, lock, arrival, at, msg, seen, crashes>>

Completed == {"DONE", "PARTIAL"}
Status    == {"PENDING", "RUNNING", "FAILED"} \cup Completed
Files     == {"parsed", "sigma", "timeline"}
\* matches stands for those of YARA and for those of the indicators, which are
\* alike and do not depend on each other.
Output    == Files \cup {"matches"}
\* half: a stage of the latest run has begun it, or failed on it.
Piece     == {"latest", "half", "earlier"}

\* inline: the pipeline runs inside the S3 ingest task, which Celery cannot
\* repeat because its second attempt stops at the existing evidence folder.
Message == [job : Job, force : BOOLEAN, left : 0..1, inline : BOOLEAN]

Running == {"prepare", "parsed", "sigma", "timeline", "export", "matches", "finish"}
Holding == {"locked", "done", "failed"} \cup Running
\* expired: ended by the time limit without an outcome.
Place   == {"idle", "checked", "reserved", "queued", "expired"} \cup Holding

TypeOK ==
  /\ status \in [Job -> Status \cup {None}]
  /\ out \in [Job -> [Output -> SUBSET Piece]]
  /\ lock \in [Job -> Task \cup Reader \cup {None}]
  /\ arrival \in [Job -> {"upload", "ingest", "uploaded", "ingested"}]
  /\ at \in [Task -> Place]
  /\ msg \in [Task -> Message \cup {None}]
  /\ \A t \in Task : at[t] # "idle" => msg[t] \in Message
  /\ seen \in [Task -> Status \cup {None}]
  /\ crashes \in 0..MaxCrashes

Init ==
  /\ status = [j \in Job |-> None]
  /\ out = [j \in Job |-> [o \in Output |-> {}]]
  /\ lock = [j \in Job |-> None]
  /\ arrival \in [Job -> Arrivals]
  /\ at = [t \in Task |-> "idle"]
  /\ msg = [t \in Task |-> None]
  /\ seen = [t \in Task |-> None]
  /\ crashes = 0

J(t)           == msg[t].job
Goto(t, place) == at' = [at EXCEPT ![t] = place]
\* A request or a task is over.
End(t)         == Goto(t, "idle") /\ msg' = [msg EXCEPT ![t] = None]
SetStatus(j, s) == status' = [status EXCEPT ![j] = s]

-----------------------------------------------------------------------------
(* Requests.                                                               *)

\* trigger_processing up to its commit: the job row is locked, so triggers
\* of a job follow each other, but the processing row is only read.
Trigger(t, j, force) ==
  /\ at[t] = "idle"
  /\ \A u \in Task : ~ (at[u] = "checked" /\ J(u) = j)
  /\ status[j] \notin {"PENDING", "RUNNING"}
  /\ status[j] \in Completed => force
  /\ msg' = [msg EXCEPT ![t] = [job |-> j, force |-> force, left |-> 1, inline |-> FALSE]]
  /\ seen' = [seen EXCEPT ![t] = status[j]]
  /\ Goto(t, "checked")
  /\ UNCHANGED <<status, out, lock, arrival, crashes>>

\* Its commit.  A row inserted meanwhile makes the insert fail.
Reserve(t) ==
  /\ at[t] = "checked"
  /\ \/ /\ seen[t] = None => status[J(t)] = None
        /\ SetStatus(J(t), "PENDING")
        /\ seen' = [seen EXCEPT ![t] = "PENDING"]
        /\ Goto(t, "reserved")
        /\ UNCHANGED msg
     \/ /\ seen[t] = None /\ status[J(t)] # None
        /\ seen' = [seen EXCEPT ![t] = None]
        /\ End(t)
        /\ UNCHANGED status
  /\ UNCHANGED <<out, lock, arrival, crashes>>

\* The end of upload_job_evidence: a row that exists is left as it is.
AutoProcess(t, j) ==
  /\ at[t] = "idle" /\ arrival[j] = "upload"
  /\ arrival' = [arrival EXCEPT ![j] = "uploaded"]
  /\ SetStatus(j, IF status[j] = None THEN "PENDING" ELSE status[j])
  /\ seen' = [seen EXCEPT ![t] = IF status[j] = None THEN "PENDING" ELSE status[j]]
  /\ msg' = [msg EXCEPT ![t] = [job |-> j, force |-> FALSE, left |-> 1, inline |-> FALSE]]
  /\ Goto(t, "reserved")
  /\ UNCHANGED <<out, lock, crashes>>

\* The end of process_s3_upload_background: no row is reserved.
IngestProcess(t, j) ==
  /\ at[t] = "idle" /\ arrival[j] = "ingest"
  /\ arrival' = [arrival EXCEPT ![j] = "ingested"]
  /\ msg' = [msg EXCEPT ![t] = [job |-> j, force |-> FALSE, left |-> 0, inline |-> TRUE]]
  /\ Goto(t, "queued")
  /\ UNCHANGED <<status, out, lock, seen, crashes>>

\* dispatch_pipeline
Publish(t) ==
  /\ at[t] = "reserved"
  /\ Goto(t, "queued")
  /\ seen' = [seen EXCEPT ![t] = None]
  /\ UNCHANGED <<status, out, lock, arrival, msg, crashes>>

\* The broker refuses the message.  The handler writes FAILED, unless that
\* is what it has loaded.
QueueFails(t) ==
  /\ Faults /\ at[t] = "reserved"
  /\ SetStatus(J(t), IF seen[t] = "FAILED" THEN status[J(t)] ELSE "FAILED")
  /\ End(t)
  /\ seen' = [seen EXCEPT ![t] = None]
  /\ UNCHANGED <<out, lock, arrival, crashes>>

\* The request process is killed before or after its commit.
RequestDies(t) ==
  /\ Faults /\ at[t] \in {"checked", "reserved"}
  /\ End(t)
  /\ seen' = [seen EXCEPT ![t] = None]
  /\ UNCHANGED <<status, out, lock, arrival, crashes>>

-----------------------------------------------------------------------------
(* The worker.                                                             *)

\* What Celery does with the message after an exception: one retry.
RetryOrDrop(t) ==
  \/ /\ msg[t].left > 0
     /\ msg' = [msg EXCEPT ![t].left = @ - 1]
     /\ Goto(t, "queued")
  \/ msg[t].left = 0 /\ End(t)

\* WorkspaceLock.__enter__: flock without waiting.
Lock(t) ==
  /\ at[t] = "queued" /\ lock[J(t)] = None
  /\ lock' = [lock EXCEPT ![J(t)] = t]
  /\ Goto(t, "locked")
  /\ UNCHANGED <<status, out, arrival, msg, seen, crashes>>

\* WorkspaceBusy: the row keeps its status, also when the message is
\* dropped, for the failure that the worker records afterwards is not stored.
Busy(t) ==
  /\ at[t] = "queued" /\ lock[J(t)] # None
  /\ RetryOrDrop(t)
  /\ UNCHANGED <<status, out, lock, arrival, seen, crashes>>

Skip(t) ==
  /\ at[t] = "locked"
  /\ status[J(t)] \in Completed /\ ~ msg[t].force
  /\ Goto(t, "done")
  /\ UNCHANGED <<status, out, lock, arrival, msg, seen, crashes>>

\* The row is read, created if need be, and committed as RUNNING.  From here
\* on every output is one of an earlier run, complete or not.
Begin(t) ==
  /\ at[t] = "locked"
  /\ status[J(t)] \notin Completed \/ msg[t].force
  /\ SetStatus(J(t), "RUNNING")
  /\ out' = [out EXCEPT ![J(t)] =
               [o \in Output |-> IF out[J(t)][o] = {} THEN {} ELSE {"earlier"}]]
  /\ Goto(t, "prepare")
  /\ UNCHANGED <<lock, arrival, msg, seen, crashes>>

\* Mutant: a forced rebuild archives the timeline and not what it is made from.
PrepareTimeline(t) ==
  /\ at[t] = "prepare"
  /\ out' = [out EXCEPT ![J(t)] =
               [o \in Output |-> IF msg[t].force /\ o = "timeline" THEN {} ELSE out[J(t)][o]]]
  /\ Goto(t, "parsed")
  /\ UNCHANGED <<status, lock, arrival, msg, seen, crashes>>

\* With force the derived directories are moved away; rows stay.
Prepare(t) ==
  /\ at[t] = "prepare"
  /\ out' = [out EXCEPT ![J(t)] =
               [o \in Output |-> IF msg[t].force /\ o \in Files THEN {} ELSE out[J(t)][o]]]
  /\ Goto(t, "parsed")
  /\ UNCHANGED <<status, lock, arrival, msg, seen, crashes>>

Write(t, from, o, pieces, to) ==
  /\ at[t] = from
  /\ out' = [out EXCEPT ![J(t)][o] = pieces]
  /\ Goto(t, to)
  /\ UNCHANGED <<status, lock, arrival, msg, seen, crashes>>

Has(t, o) == out[J(t)][o]

\* What a stage writes itself, by its outcome.
Pieces == [ran |-> {"latest"}, failed |-> {"half"}, skipped |-> {}]

\* The parsers write into directories that may exist, beside the files there:
\* those of an earlier run that was not archived stay.  A parser that fails is
\* reported, and the run goes on; one that is not configured writes nothing.
Parse(t) ==
  \E o \in Outcomes : Write(t, "parsed", "parsed", Has(t, "parsed") \cup Pieces[o], "sigma")

\* The hits of the detectors replace file and rows, with no hits of one that is
\* not configured; one of them may fail.
Sigma(t) ==
  \E o \in Outcomes \ {"skipped"} : Write(t, "sigma", "sigma", Pieces[o], "timeline")

\* export_to_jsonl truncates timeline.jsonl ...
Open(t) == Write(t, "timeline", "timeline", {"half"}, "export")

\* ... and fills it from every CSV below parsed/ and from the hits.
Export(t) == Write(t, "export", "timeline", Has(t, "parsed") \cup Has(t, "sigma"), "matches")

\* Mutant: matches are added to those of earlier runs.
DetectMore(t) == Write(t, "matches", "matches", Has(t, "matches") \cup {"latest"}, "finish")

\* YARA without rules and IOC matching without indicators are skipped, and keep
\* the rows of an earlier run; otherwise the rows are replaced.  The attack
\* chains are rebuilt with them.
Detect(t) ==
  \/ "ran" \in Outcomes /\ Write(t, "matches", "matches", {"latest"}, "finish")
  \/ "skipped" \in Outcomes /\ Write(t, "matches", "matches", Has(t, "matches"), "finish")

\* A stage reported FAILED: a part of its output is missing.
StageFailed(t) == \E o \in Files : "half" \in Has(t, o)

\* PARTIAL when any stage was not configured.  The code would also queue a
\* super timeline here; the module it imports for that does not exist, and the
\* error is only logged.
Finish(t) ==
  /\ at[t] = "finish" /\ ~StageFailed(t)
  /\ \E s \in Completed :
       /\ s = "DONE" => "latest" \in Has(t, "matches")
       /\ SetStatus(J(t), s)
  /\ Goto(t, "done")
  /\ UNCHANGED <<out, lock, arrival, msg, seen, crashes>>

\* Mutant: the outcome is rolled back with everything else.
FailSilently(t) ==
  /\ at[t] \in Running
  /\ Goto(t, "failed")
  /\ UNCHANGED <<status, out, lock, arrival, msg, seen, crashes>>

\* An exception in a phase, or a stage that reported FAILED.
Fail(t) ==
  /\ at[t] \in Running
  /\ SetStatus(J(t), "FAILED")
  /\ Goto(t, "failed")
  /\ UNCHANGED <<out, lock, arrival, msg, seen, crashes>>

\* WorkspaceLock.__exit__, and then the end of the Celery task.
Release(t) ==
  /\ at[t] \in {"done", "failed"}
  /\ lock' = [lock EXCEPT ![J(t)] = None]
  /\ \/ at[t] = "done" /\ End(t)
     \/ at[t] = "failed" /\ RetryOrDrop(t)
  /\ UNCHANGED <<status, out, arrival, seen, crashes>>

\* SoftTimeLimitExceeded is raised wherever the worker is, and not retried.
\* In the code of the pipeline it is an exception like others and FAILED is
\* committed; in the event loop it cancels the pipeline, past its except
\* clause, and the row stays as it is.
TimeUp(t) ==
  /\ Faults /\ at[t] \in Holding
  /\ lock' = [lock EXCEPT ![J(t)] = None]
  /\ \/ at[t] \in Running /\ SetStatus(J(t), "FAILED") /\ End(t)
     \/ at[t] \notin {"done", "failed"} /\ Goto(t, "expired") /\ UNCHANGED <<status, msg>>
     \/ at[t] \in {"done", "failed"} /\ End(t) /\ UNCHANGED status
  /\ UNCHANGED <<out, arrival, seen, crashes>>

\* The worker is killed.  The system releases the lock, Celery delivers the
\* message again.
Crash(t) ==
  /\ crashes < MaxCrashes /\ at[t] \in Holding
  /\ crashes' = crashes + 1
  /\ lock' = [lock EXCEPT ![J(t)] = None]
  /\ \/ msg[t].inline /\ End(t)
     \/ ~ msg[t].inline /\ Goto(t, "queued") /\ UNCHANGED msg
  /\ UNCHANGED <<status, out, arrival, seen>>

-----------------------------------------------------------------------------
Deliver(t) == Lock(t) \/ Busy(t)

Work(t) ==
  \/ Skip(t) \/ Begin(t) \/ Prepare(t)
  \/ Parse(t) \/ Sigma(t) \/ Open(t) \/ Export(t) \/ Detect(t)
  \/ Finish(t) \/ Fail(t) \/ Release(t)

Request(t) ==
  \/ \E j \in Job : \/ \E force \in BOOLEAN : Trigger(t, j, force)
                    \/ AutoProcess(t, j) \/ IngestProcess(t, j)
  \/ Reserve(t) \/ Publish(t) \/ QueueFails(t) \/ RequestDies(t)

Next == \E t \in Task : Request(t) \/ Deliver(t) \/ Work(t) \/ TimeUp(t) \/ Crash(t)

Spec == Init /\ [][Next]_vars

\* Celery delivers what it holds and a worker runs its task to the end; the
\* requests promise nothing.
FairSpec == Spec /\ \A t \in Task : WF_vars(Deliver(t)) /\ WF_vars(Work(t))

-----------------------------------------------------------------------------
(* Properties.                                                             *)

\* A row that says DONE or PARTIAL stands beside outputs that belong together:
\* no stage of the run left a part out, the Sigma hits are those of the run, and
\* the timeline holds what the parsed files and the hits beside it hold; DONE
\* means that the YARA and IOC matches are of the run too.  That is so although
\* run_parsing_pipeline writes files and rows separately, and whatever second
\* deliveries, rebuilds, killed workers and late requests do in between.
CompletedIsWhole ==
  \A j \in Job : status[j] \in Completed =>
    /\ \A o \in Output : "half" \notin out[j][o]
    /\ out[j]["sigma"] = {"latest"}
    /\ out[j]["timeline"] = out[j]["parsed"] \cup out[j]["sigma"]
    /\ status[j] = "DONE" => out[j]["matches"] = {"latest"}

\* What a killed or failed run left below parsed/ is not cleared by the next one
\* (parser_execution.py 68-70) and gets into its timeline.  Only a forced
\* rebuild is free of it: when one completes, files and timeline are its own,
\* also if its worker was killed on the way and the message came back.
RebuildIsClean ==
  \A t \in Task : at[t] = "done" /\ msg[t].force =>
    \A o \in Files : out[J(t)][o] \subseteq {"latest"}

\* A run that has begun gets an outcome, also when its worker is killed: the
\* message of run_pipeline_task comes back, or another of the job takes over.
\* Two cases are excepted, in which the row stays RUNNING for good: the time
\* limit ended a run of the job, or a run inside an S3 task was killed.
RunningSettles ==
  \A j \in Job : status[j] = "RUNNING" /\ arrival[j] \in {"upload", "uploaded"}
                   ~> \/ status[j] \in Completed \cup {"FAILED"}
                      \/ \E t \in Task : at[t] = "expired" /\ J(t) = j
=============================================================================
