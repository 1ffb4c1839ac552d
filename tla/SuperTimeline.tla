---------------------------- MODULE SuperTimeline ----------------------------
(***************************************************************************)
(* The super timeline of one incident beside the pipelines of its jobs.    *)
(* A build merges the timeline.jsonl of every completed job into a DuckDB  *)
(* file, under the lock of the incident and, while it reads, under the     *)
(* workspace locks of those jobs.  File and rows are replaced one after    *)
(* the other, before the row says DONE.                                    *)
(***************************************************************************)
EXTENDS ProcessingPipeline

VARIABLES
  tl,      \* super_timelines.status, committed
  duck,    \* super_timeline.duckdb: absent, of an earlier build, of the latest
  moves,   \* lateral_movements: the same
  tlock,   \* who holds .super-timeline.lock
  pos,     \* per build: where its request or its worker is
  left,    \* per build: retries Celery still grants
  picked   \* per build: the jobs whose timelines it merges

timeline  == <<tl, duck, moves, tlock, pos, left, picked>>
others    == <<status, out, arrival, at, msg, seen>>
tlvars    == <<vars, timeline>>

BuildStatus == {"PENDING", "BUILDING", "DONE", "FAILED"}
Building    == {"locked", "pick", "acquire", "ingest", "swap", "commit"}
Ended       == {"notify", "failed", "refused"}
BuildPlace  == {"idle", "checked", "reserved", "queued"} \cup Building \cup Ended

TLTypeOK ==
  /\ TypeOK
  /\ tl \in BuildStatus \cup {None}
  /\ duck \in {None, "stale", "fresh"} /\ moves \in {None, "stale", "fresh"}
  /\ tlock \in Reader \cup {None}
  /\ pos \in [Reader -> BuildPlace]
  /\ left \in [Reader -> 0..1]
  /\ picked \in [Reader -> SUBSET Job]

TLInit ==
  /\ Init
  /\ tl = None /\ duck = None /\ moves = None /\ tlock = None
  /\ pos = [b \in Reader |-> "idle"]
  /\ left = [b \in Reader |-> 0]
  /\ picked = [b \in Reader |-> {}]

Move(b, p)  == pos' = [pos EXCEPT ![b] = p]
Held(b)     == {j \in Job : lock[j] = b}
FreeHeld(b) == lock' = [j \in Job |-> IF lock[j] = b THEN None ELSE lock[j]]
Older(v)    == IF v = "fresh" THEN "stale" ELSE v

-----------------------------------------------------------------------------
(* Requests.                                                               *)

\* trigger_super_timeline up to its commit, the incident row locked.
TriggerBuild(b) ==
  /\ pos[b] = "idle"
  /\ \A c \in Reader : pos[c] # "checked"
  /\ \E j \in Job : status[j] \in Completed
  /\ tl \notin {"PENDING", "BUILDING"}
  /\ left' = [left EXCEPT ![b] = 1]
  /\ Move(b, "checked")
  /\ UNCHANGED <<others, lock, crashes, tl, duck, moves, tlock, picked>>

\* Its commit.  Only requests and running builds create the row, so an
\* insert never meets another one.
ReserveBuild(b) ==
  /\ pos[b] = "checked"
  /\ tl' = "PENDING"
  /\ Move(b, "reserved")
  /\ UNCHANGED <<others, lock, crashes, duck, moves, tlock, left, picked>>

PublishBuild(b) ==
  /\ pos[b] = "reserved"
  /\ Move(b, "queued")
  /\ UNCHANGED <<others, lock, crashes, tl, duck, moves, tlock, left, picked>>

QueueBuildFails(b) ==
  /\ Faults /\ pos[b] = "reserved"
  /\ tl' = "FAILED"
  /\ Move(b, "idle")
  /\ UNCHANGED <<others, lock, crashes, duck, moves, tlock, left, picked>>

BuildRequestDies(b) ==
  /\ Faults /\ pos[b] \in {"checked", "reserved"}
  /\ Move(b, "idle")
  /\ UNCHANGED <<others, lock, crashes, tl, duck, moves, tlock, left, picked>>

-----------------------------------------------------------------------------
(* The worker.                                                             *)

LockBuild(b) ==
  /\ pos[b] = "queued" /\ tlock = None
  /\ tlock' = b
  /\ Move(b, "locked")
  /\ UNCHANGED <<others, lock, crashes, tl, duck, moves, left, picked>>

\* "build already active": the task ends as if it had succeeded.
BuildBusy(b) ==
  /\ pos[b] = "queued" /\ tlock # None
  /\ Move(b, "idle")
  /\ UNCHANGED <<others, lock, crashes, tl, duck, moves, tlock, left, picked>>

\* Mutant: the row keeps its status until the build ends.
BeginBuildQuietly(b) ==
  /\ pos[b] = "locked"
  /\ duck' = Older(duck) /\ moves' = Older(moves)
  /\ Move(b, "pick")
  /\ UNCHANGED <<others, lock, crashes, tl, tlock, left, picked>>

BeginBuild(b) ==
  /\ pos[b] = "locked"
  /\ tl' = "BUILDING"
  /\ duck' = Older(duck) /\ moves' = Older(moves)
  /\ Move(b, "pick")
  /\ UNCHANGED <<others, lock, crashes, tlock, left, picked>>

\* The completed jobs with a timeline file; without any the build returns.
Pick(b) ==
  /\ pos[b] = "pick"
  /\ LET sources == {j \in Job : status[j] \in Completed /\ out[j]["timeline"] # {}}
     IN  /\ picked' = [picked EXCEPT ![b] = sources]
         /\ IF sources = {} THEN tl' = "FAILED" /\ Move(b, "refused")
                            ELSE tl' = tl /\ Move(b, "acquire")
  /\ UNCHANGED <<others, lock, crashes, duck, moves, tlock, left>>

\* Mutant: the workspace locks are not asked for.
AcquireUnchecked(b, j) ==
  /\ pos[b] = "acquire" /\ j \in picked[b]
  /\ Move(b, "ingest")
  /\ UNCHANGED <<others, lock, crashes, tl, duck, moves, tlock, left, picked>>

\* _bulk_ingest_duckdb takes the workspace locks one by one...
Acquire(b, j) ==
  /\ pos[b] = "acquire" /\ j \in picked[b] /\ lock[j] = None
  /\ lock' = [lock EXCEPT ![j] = b]
  /\ Move(b, IF picked[b] = Held(b) \cup {j} THEN "ingest" ELSE "acquire")
  /\ UNCHANGED <<others, crashes, tl, duck, moves, tlock, left, picked>>

\* ... and gives up when one is taken.  The exception is WorkspaceBusy, so
\* build_super_timeline_background swallows it and Celery does not retry.
SourceBusy(b) ==
  /\ pos[b] = "acquire"
  /\ \E j \in picked[b] : lock[j] \notin {None, b}
  /\ FreeHeld(b)
  /\ tl' = "FAILED"
  /\ Move(b, "refused")
  /\ UNCHANGED <<others, crashes, duck, moves, tlock, left, picked>>

\* All timelines are read; one that was archived meanwhile is an error.
Merge(b) ==
  /\ pos[b] = "ingest"
  /\ \A j \in picked[b] : out[j]["timeline"] # {}
  /\ FreeHeld(b)
  /\ Move(b, "swap")
  /\ UNCHANGED <<others, crashes, tl, duck, moves, tlock, left, picked>>

\* The detections are computed and flushed, then the file is renamed into place.
SwapFile(b) ==
  /\ pos[b] = "swap"
  /\ duck' = "fresh"
  /\ Move(b, "commit")
  /\ UNCHANGED <<others, lock, crashes, tl, moves, tlock, left, picked>>

CommitBuild(b) ==
  /\ pos[b] = "commit"
  /\ tl' = "DONE" /\ moves' = "fresh"
  /\ Move(b, "notify")
  /\ UNCHANGED <<others, lock, crashes, duck, tlock, left, picked>>

\* Any other exception: FAILED is committed in a session of its own, and Celery
\* retries.  A time limit is not retried, and may cancel the build before it
\* records anything.
BuildFails(b) ==
  /\ pos[b] \in {"pick", "acquire", "ingest", "swap", "commit"}
  /\ FreeHeld(b)
  /\ \/ tl' = "FAILED" /\ Move(b, "failed")
     \/ Faults /\ tl' \in {tl, "FAILED"} /\ Move(b, "refused")
  /\ UNCHANGED <<others, crashes, duck, moves, tlock, left, picked>>

\* The webhook is sent before the lock of the incident is given back.
ReleaseBuild(b) ==
  /\ pos[b] \in Ended
  /\ tlock' = None
  /\ IF pos[b] = "failed" /\ left[b] > 0
       THEN left' = [left EXCEPT ![b] = @ - 1] /\ Move(b, "queued")
       ELSE left' = left /\ Move(b, "idle")
  /\ picked' = [picked EXCEPT ![b] = {}]
  /\ UNCHANGED <<others, lock, crashes, tl, duck, moves>>

CrashBuild(b) ==
  /\ crashes < MaxCrashes /\ pos[b] \in Building \cup Ended
  /\ crashes' = crashes + 1
  /\ tlock' = None /\ FreeHeld(b)
  /\ picked' = [picked EXCEPT ![b] = {}]
  /\ Move(b, "queued")
  /\ UNCHANGED <<others, tl, duck, moves, left>>

-----------------------------------------------------------------------------
DeliverBuild(b) == LockBuild(b) \/ BuildBusy(b)

WorkBuild(b) ==
  \/ BeginBuild(b) \/ Pick(b) \/ (\E j \in Job : Acquire(b, j)) \/ SourceBusy(b)
  \/ Merge(b) \/ SwapFile(b) \/ CommitBuild(b)
  \/ BuildFails(b) \/ ReleaseBuild(b)

RequestBuild(b) ==
  TriggerBuild(b) \/ ReserveBuild(b) \/ PublishBuild(b) \/ QueueBuildFails(b)
  \/ BuildRequestDies(b)

TLNext ==
  \/ Next /\ UNCHANGED timeline
  \/ \E b \in Reader : RequestBuild(b) \/ DeliverBuild(b) \/ WorkBuild(b) \/ CrashBuild(b)

TLSpec == TLInit /\ [][TLNext]_tlvars

-----------------------------------------------------------------------------
(* Properties.                                                             *)

\* While a super timeline says DONE, the file and the detections that readers
\* get are both of the last build that began: whatever failed or was killed
\* between the rename and the commit, they never see one of each.
PublishedTogether == tl = "DONE" => duck = "fresh" /\ moves = "fresh"

\* While a build reads the timelines it picked, no pipeline is writing one of
\* them: killed workers, retries and forced rebuilds included.
ReadsUndisturbed ==
  \A b \in Reader, t \in Task :
    pos[b] = "ingest" /\ at[t] \in Holding => J(t) \notin picked[b]
=============================================================================
