------------------------- MODULE SuperTimelineProofs -------------------------
(***************************************************************************)
(* Theorems about ProcessingPipeline and about SuperTimeline, which builds *)
(* on it, for any jobs, pipeline runs and builds.                          *)
(***************************************************************************)
EXTENDS SuperTimeline, TLAPS

-----------------------------------------------------------------------------
(* The pipelines.                                                          *)

\* A worker inside the workspace holds its lock, so there is only one.
HolderHasLock == \A t \in Task : at[t] \in Holding => lock[J(t)] = t

\* What the outputs hold when a run is at a place.  The matches of earlier runs
\* are kept or replaced as a whole; a forced rebuild leaves no other run's files.
Fits(place, force, o) ==
  /\ place \in {"timeline", "export", "matches", "finish"} => o["sigma"] \in {{"latest"}, {"half"}}
  /\ place \in {"matches", "finish"} => o["timeline"] = o["parsed"] \cup o["sigma"]
  /\ place \in Running \ {"finish"} => o["matches"] \subseteq {"earlier"}
  /\ place = "finish" => o["matches"] \subseteq {"earlier"} \/ o["matches"] = {"latest"}
  /\ force /\ place \in Running \ {"prepare"} => \A f \in Files : o[f] \subseteq {"latest", "half"}
  /\ force /\ place = "done" => \A f \in Files : o[f] \subseteq {"latest"}

\* A run under way is not reported as completed, and its outputs fit its place.
RunFits ==
  \A t \in Task : at[t] \in Holding =>
    /\ at[t] \in Running => status[J(t)] \notin Completed
    /\ Fits(at[t], msg[t].force, out[J(t)])

\* The outputs of a completed job belong together.
Whole(s, o) ==
  s \in Completed =>
    /\ \A x \in Output : "half" \notin o[x]
    /\ o["sigma"] = {"latest"}
    /\ o["timeline"] = o["parsed"] \cup o["sigma"]
    /\ s = "DONE" => o["matches"] = {"latest"}

PipelineInv == TypeOK /\ HolderHasLock /\ RunFits /\ CompletedIsWhole

-----------------------------------------------------------------------------
\* Initially nobody is at work and there is no row.
LEMMA PipelineInit == Init => PipelineInv
<1> SUFFICES ASSUME Init PROVE PipelineInv
  OBVIOUS
<1> USE PipelineAssumption DEF Init
<1>1. status \in [Job -> Status \cup {None}] /\ out \in [Job -> [Output -> SUBSET Piece]]
  OBVIOUS
<1>2. arrival \in [Job -> {"upload", "ingest", "uploaded", "ingested"}]
  <2>1. arrival \in [Job -> Arrivals] /\ Arrivals \subseteq {"upload", "ingest", "uploaded", "ingested"}
    OBVIOUS
  <2>2. arrival = [j \in Job |-> arrival[j]]
    BY <2>1
  <2>3. \A j \in Job : arrival[j] \in {"upload", "ingest", "uploaded", "ingested"}
    BY <2>1
  <2>4. QED
    BY <2>2, <2>3, Zenon
<1>3. /\ lock \in [Job -> Task \cup Reader \cup {None}] /\ at \in [Task -> Place]
      /\ msg \in [Task -> Message \cup {None}] /\ seen \in [Task -> Status \cup {None}]
      /\ \A t \in Task : at[t] = "idle"
      /\ crashes \in 0..MaxCrashes
  BY DEF Place
<1>4. TypeOK
  BY <1>1, <1>2, <1>3 DEF TypeOK
<1>5. HolderHasLock /\ RunFits
  BY <1>3 DEF HolderHasLock, RunFits, Holding, Running
<1>6. CompletedIsWhole
  BY DEF CompletedIsWhole, Completed
<1>7. QED
  BY <1>4, <1>5, <1>6 DEF PipelineInv

\* A retry leaves a message that is still well formed.
LEMMA RetryIsMessage ==
  ASSUME NEW m \in Message, m.left > 0
  PROVE  [m EXCEPT !.left = @ - 1] \in Message
  BY DEF Message

\* Types alone.
LEMMA TypeStep ==
  ASSUME TypeOK, NEW t \in Task,
         Request(t) \/ Deliver(t) \/ Work(t) \/ TimeUp(t) \/ Crash(t)
  PROVE  TypeOK'
<1> USE PipelineAssumption
<1>m. at[t] # "idle" => msg[t] \in Message /\ J(t) \in Job
  BY DEF TypeOK, Message, J
<1>r. RetryOrDrop(t) /\ at[t] # "idle"
        => /\ at' \in [Task -> Place] /\ msg' \in [Task -> Message \cup {None}]
           /\ \A u \in Task : at'[u] # "idle" => msg'[u] \in Message
  <2> SUFFICES ASSUME RetryOrDrop(t), at[t] # "idle"
               PROVE  /\ at' \in [Task -> Place] /\ msg' \in [Task -> Message \cup {None}]
                      /\ \A u \in Task : at'[u] # "idle" => msg'[u] \in Message
    OBVIOUS
  <2>1. CASE End(t)
    BY <2>1 DEF End, Goto, TypeOK, Place
  <2>2. CASE msg[t].left > 0 /\ msg' = [msg EXCEPT ![t].left = @ - 1] /\ Goto(t, "queued")
    <3>1. [msg[t] EXCEPT !.left = @ - 1] \in Message
      BY <2>2, <1>m, RetryIsMessage
    <3>2. msg' = [msg EXCEPT ![t] = [msg[t] EXCEPT !.left = @ - 1]]
      BY <2>2 DEF TypeOK
    <3>3. at \in [Task -> Place] /\ msg \in [Task -> Message \cup {None}] /\ \A u \in Task : at[u] # "idle" => msg[u] \in Message
      BY DEF TypeOK
    <3> DEFINE m == [msg[t] EXCEPT !.left = @ - 1]
    <3>4. m \in Message /\ msg' = [msg EXCEPT ![t] = m]
      BY <3>1, <3>2
    <3>5. at' = [at EXCEPT ![t] = "queued"] /\ "queued" \in Place
      BY <2>2 DEF Goto, Place
    <3> HIDE DEF m
    <3>6. QED
      BY <3>3, <3>4, <3>5
  <2>3. QED
    BY <2>1, <2>2 DEF RetryOrDrop
<1>1. ASSUME NEW j \in Job, NEW force \in BOOLEAN, Trigger(t, j, force) PROVE TypeOK'
  BY <1>1 DEF Trigger, TypeOK, Goto, Message, Place
<1>2. ASSUME NEW j \in Job, AutoProcess(t, j) PROVE TypeOK'
  BY <1>2 DEF AutoProcess, TypeOK, Goto, SetStatus, Message, Place, Status
<1>3. ASSUME NEW j \in Job, IngestProcess(t, j) PROVE TypeOK'
  BY <1>3 DEF IngestProcess, TypeOK, Goto, Message, Place
<1>4. CASE Reserve(t)
  BY ZenonT(60), <1>4, <1>m DEF Reserve, TypeOK, Goto, End, SetStatus, Place, Status
<1>5. CASE Publish(t) \/ QueueFails(t) \/ RequestDies(t)
  BY ZenonT(60), <1>5, <1>m DEF Publish, QueueFails, RequestDies, TypeOK, Goto, End, SetStatus, Place, Status
<1>6. CASE Lock(t)
  BY <1>6, <1>m DEF Lock, TypeOK, Goto, Place, Holding
<1>7. CASE Busy(t)
  BY <1>7, <1>r DEF Busy, TypeOK
<1>8. CASE Skip(t)
  BY <1>8, <1>m DEF Skip, TypeOK, Goto, Place, Holding
<1>9. CASE Begin(t) \/ Prepare(t)
  <2>1. J(t) \in Job /\ at' \in [Task -> Place] /\ at[t] # "idle"
    BY <1>9, <1>m DEF Begin, Prepare, TypeOK, Goto, Place, Holding, Running
  <2>2. status' \in [Job -> Status \cup {None}]
    BY <1>9, <2>1 DEF Begin, Prepare, TypeOK, SetStatus, Status
  <2>3. out[J(t)] \in [Output -> SUBSET Piece]
    BY <2>1 DEF TypeOK
  <2>4. out' \in [Job -> [Output -> SUBSET Piece]]
    <3>1. CASE Begin(t)
      BY <3>1, <2>3 DEF Begin, TypeOK, Piece
    <3>2. CASE Prepare(t)
      BY <3>2, <2>3 DEF Prepare, TypeOK
    <3>3. QED
      BY <1>9, <3>1, <3>2
  <2>5. \A u \in Task : at'[u] # "idle" => msg'[u] \in Message
    BY <1>9, <2>1 DEF Begin, Prepare, Goto, TypeOK
  <2>6. QED
    BY <1>9, <2>1, <2>2, <2>4, <2>5 DEF Begin, Prepare, TypeOK
<1>10. ASSUME NEW o \in Output, NEW v \in SUBSET Piece, NEW from, NEW to \in Running,
              from # "idle", Write(t, from, o, v, to)
       PROVE  TypeOK'
  BY <1>10, <1>m DEF Write, TypeOK, Goto, Place, Holding
<1>o. at[t] # "idle" => \A o \in Output : Has(t, o) \in SUBSET Piece
  BY <1>m DEF Has, TypeOK
<1>v. /\ \A o \in {"ran", "failed", "skipped"} : Pieces[o] \in SUBSET Piece
      /\ {"half"} \in SUBSET Piece /\ {"latest"} \in SUBSET Piece
  BY DEF Pieces, Piece
<1>11. CASE Parse(t) \/ Sigma(t) \/ Open(t) \/ Export(t) \/ Detect(t)
  <2>1. ASSUME NEW o \in Outcomes,
               Write(t, "parsed", "parsed", Has(t, "parsed") \cup Pieces[o], "sigma")
        PROVE  TypeOK'
    <3>1. Has(t, "parsed") \cup Pieces[o] \in SUBSET Piece
      BY <2>1, <1>o, <1>v DEF Write, Output, Files
    <3>2. QED
      BY <2>1, <3>1, <1>10 DEF Output, Files, Running
  <2>2. ASSUME NEW o \in Outcomes, Write(t, "sigma", "sigma", Pieces[o], "timeline")
        PROVE  TypeOK'
    BY <2>2, <1>10, <1>v DEF Output, Files, Running
  <2>3. CASE Open(t)
    BY <2>3, <1>10, <1>v DEF Open, Output, Files, Running
  <2>4. CASE Export(t)
    <3>1. Has(t, "parsed") \cup Has(t, "sigma") \in SUBSET Piece
      BY <2>4, <1>o DEF Export, Write, Output, Files
    <3>2. QED
      BY <2>4, <3>1, <1>10 DEF Export, Output, Files, Running
  <2>5. CASE Detect(t)
    <3>1. Has(t, "matches") \in SUBSET Piece
      BY <2>5, <1>o DEF Detect, Write, Output
    <3>2. QED
      BY <2>5, <3>1, <1>10, <1>v DEF Detect, Output, Running
  <2>6. QED
    BY <1>11, <2>1, <2>2, <2>3, <2>4, <2>5 DEF Parse, Sigma
<1>12. CASE Finish(t) \/ Fail(t)
  <2>1. J(t) \in Job /\ at[t] # "idle"
    BY <1>12, <1>m DEF Finish, Fail, Running
  <2>2. status' \in [Job -> Status \cup {None}]
    BY <1>12, <2>1 DEF Finish, Fail, TypeOK, SetStatus, Status
  <2>3. at' \in [Task -> Place] /\ \A u \in Task : at'[u] # "idle" => msg'[u] \in Message
    BY <1>12, <2>1 DEF Finish, Fail, Goto, TypeOK, Place, Holding
  <2>4. QED
    BY <1>12, <2>2, <2>3 DEF Finish, Fail, TypeOK
<1>13. CASE Release(t)
  <2>1. at[t] # "idle" /\ lock' \in [Job -> Task \cup Reader \cup {None}]
    BY <1>13, <1>m DEF Release, TypeOK
  <2>2. CASE End(t)
    BY <1>13, <2>1, <2>2 DEF Release, End, Goto, TypeOK, Place
  <2>3. CASE RetryOrDrop(t)
    BY <1>13, <2>1, <2>3, <1>r DEF Release, TypeOK
  <2>4. QED
    BY <1>13, <2>2, <2>3 DEF Release
<1>14. CASE TimeUp(t)
  <2>1. J(t) \in Job /\ at[t] # "idle"
    BY <1>14, <1>m DEF TimeUp, Holding, Running
  <2>2. status' \in [Job -> Status \cup {None}]
    BY <1>14, <2>1 DEF TimeUp, TypeOK, SetStatus, Status
  <2>3. lock' \in [Job -> Task \cup Reader \cup {None}]
    BY <1>14, <2>1 DEF TimeUp, TypeOK
  <2>4. /\ at' \in [Task -> Place] /\ msg' \in [Task -> Message \cup {None}]
        /\ \A u \in Task : at'[u] # "idle" => msg'[u] \in Message
    BY <1>14, <2>1 DEF TimeUp, End, Goto, TypeOK, Place
  <2>5. QED
    BY <1>14, <2>2, <2>3, <2>4 DEF TimeUp, TypeOK
<1>15. CASE Crash(t)
  <2>1. J(t) \in Job /\ at[t] # "idle"
    BY <1>15, <1>m DEF Crash, Holding, Running
  <2>2. crashes' \in 0..MaxCrashes
    BY <1>15 DEF Crash, TypeOK
  <2>3. lock' \in [Job -> Task \cup Reader \cup {None}]
    BY <1>15, <2>1 DEF Crash, TypeOK
  <2>4. /\ at' \in [Task -> Place] /\ msg' \in [Task -> Message \cup {None}]
        /\ \A u \in Task : at'[u] # "idle" => msg'[u] \in Message
    BY <1>15, <2>1 DEF Crash, End, Goto, TypeOK, Place
  <2>5. QED
    BY <1>15, <2>2, <2>3, <2>4 DEF Crash, TypeOK
<1>16. QED
  BY <1>1, <1>2, <1>3, <1>4, <1>5, <1>6, <1>7, <1>8, <1>9, <1>11, <1>12, <1>13,
     <1>14, <1>15
  DEF Request, Deliver, Work

-----------------------------------------------------------------------------
\* The step of t leaves the other messages alone.
OnlyMoves(t) == \A u \in Task \ {t} : at'[u] = at[u] /\ msg'[u] = msg[u]

\* A message on its way names a job.
LEMMA JobOfMessage ==
  ASSUME TypeOK, NEW t \in Task, at[t] # "idle"
  PROVE  J(t) \in Job
  BY DEF TypeOK, Message, J

\* A step outside the workspaces, in which no row becomes completed.
LEMMA OutsideStep ==
  ASSUME PipelineInv, TypeOK', NEW t \in Task, OnlyMoves(t),
         UNCHANGED <<out, lock>>, at[t] \notin Holding, at'[t] \notin Holding,
         \A k \in Job : status'[k] = status[k] \/ status'[k] \notin Completed
  PROVE  PipelineInv'
<1>i. TypeOK /\ HolderHasLock /\ RunFits /\ CompletedIsWhole
  BY DEF PipelineInv
<1>1. \A u \in Task : at'[u] \in Holding => at'[u] = at[u] /\ J(u)' = J(u)
  BY DEF J, OnlyMoves
<1>2. HolderHasLock'
  BY <1>1, <1>i DEF HolderHasLock
<1>3. RunFits'
  <2> SUFFICES ASSUME NEW u \in Task, at'[u] \in Holding
               PROVE  /\ at'[u] \in Running => status'[J(u)'] \notin Completed
                      /\ Fits(at'[u], msg'[u].force, out'[J(u)'])
    BY DEF RunFits
  <2>1. at'[u] = at[u] /\ msg'[u] = msg[u] /\ J(u)' = J(u) /\ at[u] # "idle"
    BY <1>1 DEF Holding, Running, OnlyMoves
  <2>2. J(u) \in Job
    BY <2>1, <1>i, JobOfMessage
  <2>3. QED
    BY <2>1, <2>2, <1>i DEF RunFits
<1>4. CompletedIsWhole'
  BY <1>i DEF CompletedIsWhole
<1>5. QED
  BY <1>2, <1>3, <1>4 DEF PipelineInv

\* A step of the worker that holds the workspace: it writes its own row and
\* outputs, and they fit the place it reaches.
LEMMA InsideStep ==
  ASSUME PipelineInv, TypeOK', NEW t \in Task, OnlyMoves(t),
         msg' = msg, lock' = lock, at[t] \in Holding, at'[t] \in Holding,
         \A k \in Job \ {J(t)} : status'[k] = status[k] /\ out'[k] = out[k],
         at'[t] \in Running => status'[J(t)] \notin Completed,
         Fits(at'[t], msg[t].force, out'[J(t)]), Whole(status'[J(t)], out'[J(t)])
  PROVE  PipelineInv'
<1>i. TypeOK /\ HolderHasLock /\ RunFits /\ CompletedIsWhole
  BY DEF PipelineInv
<1>j. \A u \in Task : J(u)' = J(u)
  BY DEF J
<1>2. HolderHasLock'
  BY <1>j, <1>i DEF HolderHasLock, OnlyMoves
<1>3. RunFits'
  <2> SUFFICES ASSUME NEW u \in Task, at'[u] \in Holding
               PROVE  /\ at'[u] \in Running => status'[J(u)] \notin Completed
                      /\ Fits(at'[u], msg[u].force, out'[J(u)])
    BY <1>j DEF RunFits
  <2>1. CASE u = t
    BY <2>1
  <2>2. CASE u # t
    <3>1. at'[u] = at[u] /\ at[u] \in Holding /\ at[u] # "idle"
      BY <2>2 DEF OnlyMoves, Holding, Running
    <3>2. J(u) \in Job /\ J(u) # J(t)
      BY <2>2, <3>1, <1>i, JobOfMessage DEF HolderHasLock
    <3>3. QED
      BY <3>1, <3>2, <1>i DEF RunFits
  <2>3. QED
    BY <2>1, <2>2
<1>4. CompletedIsWhole'
  <2> SUFFICES ASSUME NEW k \in Job PROVE Whole(status'[k], out'[k])
    BY DEF CompletedIsWhole, Whole
  <2>1. CASE k = J(t)
    BY <2>1
  <2>2. CASE k # J(t)
    <3>1. status'[k] = status[k] /\ out'[k] = out[k]
      BY <2>2
    <3>2. QED
      BY <3>1, <1>i DEF CompletedIsWhole, Whole
  <2>3. QED
    BY <2>1, <2>2
<1>5. QED
  BY <1>2, <1>3, <1>4 DEF PipelineInv

\* The worker that holds the workspace leaves it.
LEMMA LeaveStep ==
  ASSUME PipelineInv, TypeOK', NEW t \in Task, OnlyMoves(t),
         UNCHANGED out, lock' = [lock EXCEPT ![J(t)] = None],
         \A k \in Job : status'[k] = status[k] \/ status'[k] \notin Completed,
         at[t] \in Holding, at'[t] \notin Holding
  PROVE  PipelineInv'
<1>i. TypeOK /\ HolderHasLock /\ RunFits /\ CompletedIsWhole
  BY DEF PipelineInv
<1>1. \A u \in Task : at'[u] \in Holding => u # t /\ at'[u] = at[u] /\ J(u)' = J(u)
  BY DEF J, OnlyMoves
<1>2. HolderHasLock'
  <2> SUFFICES ASSUME NEW u \in Task, at'[u] \in Holding PROVE lock'[J(u)'] = u
    BY DEF HolderHasLock
  <2>1. u # t /\ at[u] \in Holding /\ J(u)' = J(u) /\ at[u] # "idle"
    BY <1>1 DEF Holding, Running
  <2>2. J(u) \in Job /\ J(u) # J(t) /\ lock[J(u)] = u
    BY <2>1, <1>i, JobOfMessage DEF HolderHasLock
  <2>3. QED
    BY <2>1, <2>2, <1>i DEF TypeOK
<1>3. RunFits'
  <2> SUFFICES ASSUME NEW u \in Task, at'[u] \in Holding
               PROVE  /\ at'[u] \in Running => status'[J(u)'] \notin Completed
                      /\ Fits(at'[u], msg'[u].force, out'[J(u)'])
    BY DEF RunFits
  <2>1. at'[u] = at[u] /\ msg'[u] = msg[u] /\ J(u)' = J(u) /\ at[u] # "idle"
    BY <1>1 DEF Holding, Running, OnlyMoves
  <2>2. J(u) \in Job
    BY <2>1, <1>i, JobOfMessage
  <2>3. QED
    BY <2>1, <2>2, <1>i DEF RunFits
<1>4. CompletedIsWhole'
  BY <1>i DEF CompletedIsWhole
<1>5. QED
  BY <1>2, <1>3, <1>4 DEF PipelineInv

\* A worker enters a workspace nobody holds.
LEMMA EnterStep ==
  ASSUME PipelineInv, TypeOK', NEW t \in Task, Lock(t)
  PROVE  PipelineInv'
<1> USE PipelineAssumption
<1>i. TypeOK /\ HolderHasLock /\ RunFits /\ CompletedIsWhole
  BY DEF PipelineInv
<1>j. J(t) \in Job /\ \A u \in Task : J(u)' = J(u)
  BY <1>i, JobOfMessage DEF Lock, J
<1>1. at'[t] = "locked" /\ \A u \in Task \ {t} : at'[u] = at[u]
  BY <1>i DEF Lock, Goto, TypeOK
<1>2. HolderHasLock'
  <2> SUFFICES ASSUME NEW u \in Task, at'[u] \in Holding PROVE lock'[J(u)] = u
    BY <1>j DEF HolderHasLock
  <2>1. CASE u = t
    BY <2>1, <1>i, <1>j DEF Lock, TypeOK
  <2>2. CASE u # t
    <3>1. lock[J(u)] = u /\ lock[J(t)] = None /\ u # None
      BY <2>2, <1>1, <1>i DEF HolderHasLock, Lock
    <3>2. J(u) \in Job
      BY <2>2, <1>1, <1>i, JobOfMessage DEF Holding, Running
    <3>3. QED
      BY <3>1, <3>2, <1>i DEF Lock, TypeOK
  <2>3. QED
    BY <2>1, <2>2
<1>3. RunFits'
  <2> SUFFICES ASSUME NEW u \in Task, at'[u] \in Holding
               PROVE  /\ at'[u] \in Running => status[J(u)] \notin Completed
                      /\ Fits(at'[u], msg[u].force, out[J(u)])
    BY <1>j DEF RunFits, Lock
  <2>1. CASE u = t
    BY <2>1, <1>1 DEF Fits, Running
  <2>2. CASE u # t
    BY <2>2, <1>1, <1>i DEF RunFits
  <2>3. QED
    BY <2>1, <2>2
<1>4. CompletedIsWhole'
  BY <1>i DEF Lock, CompletedIsWhole
<1>5. QED
  BY <1>2, <1>3, <1>4 DEF PipelineInv

-----------------------------------------------------------------------------
\* Every step of a request or of a worker keeps the invariant.
LEMMA PipelineStep ==
  ASSUME PipelineInv, NEW t \in Task,
         Request(t) \/ Deliver(t) \/ Work(t) \/ TimeUp(t) \/ Crash(t)
  PROVE  PipelineInv'
<1> USE PipelineAssumption
<1>t. TypeOK /\ TypeOK'
  BY TypeStep DEF PipelineInv
<1>i. HolderHasLock /\ RunFits /\ CompletedIsWhole
  BY DEF PipelineInv
<1>p. "idle" \notin Holding /\ "queued" \notin Holding /\ "checked" \notin Holding
      /\ "reserved" \notin Holding
  BY DEF Holding, Running
<1>g. \A p \in Place : Goto(t, p) => at'[t] = p /\ \A u \in Task \ {t} : at'[u] = at[u]
  BY <1>t DEF Goto, TypeOK
<1>e. End(t) => at'[t] = "idle" /\ OnlyMoves(t)
  BY <1>t, <1>g DEF End, OnlyMoves, TypeOK, Place, Goto
<1>r. RetryOrDrop(t) => at'[t] \in {"idle", "queued"} /\ OnlyMoves(t)
  BY <1>t, <1>e DEF RetryOrDrop, Goto, OnlyMoves, TypeOK
<1>s. \A j \in Job, v \in Status : SetStatus(j, v) =>
         status'[j] = v /\ \A k \in Job \ {j} : status'[k] = status[k]
  BY <1>t DEF SetStatus, TypeOK
<1>n. /\ "PENDING" \notin Completed /\ "FAILED" \notin Completed /\ "RUNNING" \notin Completed
      /\ {"PENDING", "FAILED", "RUNNING"} \subseteq Status
  BY DEF Completed, Status
<1>1. ASSUME NEW j \in Job, NEW force \in BOOLEAN, Trigger(t, j, force) PROVE PipelineInv'
  <2>1. OnlyMoves(t) /\ at'[t] = "checked"
    BY <1>1, <1>t DEF Trigger, OnlyMoves, Goto, TypeOK
  <2>2. QED
    BY <1>1, <2>1, <1>t, <1>p, OutsideStep DEF Trigger
<1>2. ASSUME NEW j \in Job, AutoProcess(t, j) PROVE PipelineInv'
  <2>1. OnlyMoves(t) /\ at'[t] = "reserved"
    BY <1>2, <1>t DEF AutoProcess, OnlyMoves, Goto, TypeOK
  <2>2. \A k \in Job : status'[k] = status[k] \/ status'[k] \notin Completed
    BY <1>2, <1>t, <1>n DEF AutoProcess, SetStatus, TypeOK
  <2>3. QED
    BY <1>2, <2>1, <2>2, <1>t, <1>p, OutsideStep DEF AutoProcess
<1>3. ASSUME NEW j \in Job, IngestProcess(t, j) PROVE PipelineInv'
  <2>1. OnlyMoves(t) /\ at'[t] = "queued"
    BY <1>3, <1>t DEF IngestProcess, OnlyMoves, Goto, TypeOK
  <2>2. QED
    BY <1>3, <2>1, <1>t, <1>p, OutsideStep DEF IngestProcess
<1>4. CASE Reserve(t)
  <2>1. J(t) \in Job /\ at[t] \notin Holding
    BY <1>4, <1>t, <1>p, JobOfMessage DEF Reserve
  <2>2. OnlyMoves(t) /\ at'[t] \notin Holding
    BY <1>4, <1>t, <1>p, <1>e DEF Reserve, OnlyMoves, Goto, TypeOK
  <2>3. \A k \in Job : status'[k] = status[k] \/ status'[k] \notin Completed
    BY <1>4, <2>1, <1>s, <1>n DEF Reserve
  <2>4. QED
    BY <1>4, <2>1, <2>2, <2>3, <1>t, OutsideStep DEF Reserve
<1>5. CASE Publish(t)
  <2>1. OnlyMoves(t) /\ at'[t] = "queued"
    BY <1>5, <1>t DEF Publish, OnlyMoves, Goto, TypeOK
  <2>2. QED
    BY <1>5, <2>1, <1>t, <1>p, OutsideStep DEF Publish
<1>6. CASE QueueFails(t)
  <2>1. J(t) \in Job
    BY <1>6, <1>t, JobOfMessage DEF QueueFails
  <2>2. \A k \in Job : status'[k] = status[k] \/ status'[k] \notin Completed
    BY <1>6, <2>1, <1>t, <1>n DEF QueueFails, SetStatus, TypeOK
  <2>3. QED
    BY <1>6, <2>2, <1>e, <1>t, <1>p, OutsideStep DEF QueueFails
<1>7. CASE RequestDies(t)
  BY <1>7, <1>e, <1>t, <1>p, OutsideStep DEF RequestDies
<1>8. CASE Lock(t)
  BY <1>8, <1>t, EnterStep
<1>9. CASE Busy(t)
  BY <1>9, <1>r, <1>t, <1>p, OutsideStep DEF Busy
<1>h. at[t] \in Holding => J(t) \in Job /\ at[t] # "idle"
  BY <1>t, <1>p, JobOfMessage
<1>q. ASSUME NEW p \in Place, Goto(t, p), msg' = msg PROVE OnlyMoves(t) /\ at'[t] = p
  BY <1>q, <1>g DEF OnlyMoves
<1>k. ASSUME at[t] \in Holding
      PROVE  /\ out[J(t)] \in [Output -> SUBSET Piece]
             /\ Fits(at[t], msg[t].force, out[J(t)])
             /\ Whole(status[J(t)], out[J(t)])
  BY <1>k, <1>h, <1>t, <1>i DEF RunFits, CompletedIsWhole, Whole, TypeOK
<1>10. CASE Skip(t)
  <2>1. OnlyMoves(t) /\ at'[t] = "done" /\ at[t] \in Holding /\ at'[t] \in Holding
    BY <1>10, <1>q DEF Skip, Holding, Place
  <2>2. Fits(at'[t], msg[t].force, out[J(t)])
    BY <1>10, <2>1 DEF Skip, Fits, Running
  <2>3. QED
    BY <1>10, <2>1, <2>2, <1>k, <1>t, InsideStep DEF Skip, Running
<1>11. CASE Begin(t)
  <2>1. OnlyMoves(t) /\ at'[t] = "prepare" /\ at[t] \in Holding /\ at'[t] \in Holding
    BY <1>11, <1>q DEF Begin, Holding, Running, Place
  <2>2. status'[J(t)] \notin Completed /\ \A k \in Job \ {J(t)} : status'[k] = status[k]
    BY <1>11, <2>1, <1>h, <1>s, <1>n DEF Begin
  <2>3. \A k \in Job \ {J(t)} : out'[k] = out[k]
    BY <1>11, <1>t DEF Begin, TypeOK
  <2>4. out'[J(t)]["matches"] \subseteq {"earlier"}
    BY <1>11, <2>1, <1>h, <1>t DEF Begin, TypeOK, Output
  <2>5. Fits(at'[t], msg[t].force, out'[J(t)]) /\ Whole(status'[J(t)], out'[J(t)])
    BY <2>1, <2>2, <2>4 DEF Fits, Whole, Running
  <2>6. QED
    BY <1>11, <2>1, <2>2, <2>3, <2>5, <1>t, InsideStep DEF Begin
<1>12. CASE Prepare(t)
  <2>1. OnlyMoves(t) /\ at'[t] = "parsed" /\ at[t] \in Running /\ at'[t] \in Holding
        /\ at[t] = "prepare" /\ at[t] \in Holding
    BY <1>12, <1>q DEF Prepare, Holding, Running, Place
  <2>2. status' = status /\ status[J(t)] \notin Completed
    BY <1>12, <2>1, <1>i DEF Prepare, RunFits
  <2>3. \A k \in Job \ {J(t)} : out'[k] = out[k]
    BY <1>12, <1>t DEF Prepare, TypeOK
  <2>4. \A o \in Output : out'[J(t)][o] = IF msg[t].force /\ o \in Files THEN {} ELSE out[J(t)][o]
    BY <1>12, <2>1, <1>h, <1>t DEF Prepare, TypeOK
  <2>5. out[J(t)]["matches"] \subseteq {"earlier"}
    BY <2>1, <1>k DEF Fits, Running
  <2>6. out'[J(t)]["matches"] = out[J(t)]["matches"]
    BY <2>4 DEF Output, Files
  <2>7. msg[t].force => \A f \in Files : out'[J(t)][f] = {}
    BY <2>4 DEF Output
  <2>8. Fits(at'[t], msg[t].force, out'[J(t)])
    BY <2>1, <2>5, <2>6, <2>7 DEF Fits, Running
  <2>9. QED
    BY <1>12, <2>1, <2>2, <2>3, <2>8, <1>t, InsideStep DEF Prepare, Whole
<1>13. ASSUME NEW o \in Output, NEW v \in SUBSET Piece, NEW from \in Running, NEW to \in Running,
              Write(t, from, o, v, to),
              Fits(to, msg[t].force, [out[J(t)] EXCEPT ![o] = v])
       PROVE  PipelineInv'
  <2>1. OnlyMoves(t) /\ at'[t] = to /\ at[t] = from /\ at[t] \in Holding /\ at'[t] \in Holding
    BY <1>13, <1>q DEF Write, Holding, Place
  <2>2. status' = status /\ status[J(t)] \notin Completed
    BY <1>13, <2>1, <1>i DEF Write, RunFits
  <2>3. \A k \in Job \ {J(t)} : out'[k] = out[k]
    BY <1>13, <1>t DEF Write, TypeOK
  <2>4. out'[J(t)] = [out[J(t)] EXCEPT ![o] = v]
    BY <1>13, <2>1, <1>h, <1>t DEF Write, TypeOK
  <2>5. Fits(at'[t], msg[t].force, out'[J(t)]) /\ Whole(status'[J(t)], out'[J(t)])
    BY <1>13, <2>1, <2>2, <2>4 DEF Whole
  <2>6. QED
    BY <1>13, <2>1, <2>2, <2>3, <2>5, <1>t, InsideStep DEF Write
<1>v. /\ \A o \in {"ran", "failed", "skipped"} : Pieces[o] \in SUBSET {"latest", "half"}
      /\ Pieces["ran"] = {"latest"} /\ Pieces["failed"] = {"half"}
  BY DEF Pieces
<1>14. CASE Parse(t) \/ Sigma(t) \/ Open(t) \/ Export(t) \/ Detect(t)
  <2> DEFINE w == out[J(t)]
             force == msg[t].force
  <2>w. at[t] \in Holding
    BY <1>14 DEF Parse, Sigma, Open, Export, Detect, Write, Holding, Running
  <2>k. w \in [Output -> SUBSET Piece] /\ Fits(at[t], force, w)
    BY <2>w, <1>k
  <2>o. \A o \in Output : Has(t, o) = w[o] /\ w[o] \in SUBSET Piece
    BY <2>k DEF Has
  <2>f. /\ {"parsed", "sigma", "timeline"} = Files /\ Files \subseteq Output /\ "matches" \in Output
        /\ "matches" \notin Files
        /\ {"parsed", "sigma", "timeline", "export", "matches", "finish"} \subseteq Running
    BY DEF Files, Output, Running
  <2>1. ASSUME NEW o \in Outcomes,
               Write(t, "parsed", "parsed", Has(t, "parsed") \cup Pieces[o], "sigma")
        PROVE  PipelineInv'
    <3> DEFINE v == Has(t, "parsed") \cup Pieces[o]
    <3>0. at[t] = "parsed" /\ v \in SUBSET Piece /\ v = w["parsed"] \cup Pieces[o]
          /\ Pieces[o] \in SUBSET {"latest", "half"}
      BY <2>1, <2>o, <2>f, <1>v DEF Write, Piece
    <3> HIDE DEF v
    <3>1. Fits("sigma", force, [w EXCEPT !["parsed"] = v])
      BY <3>0, <2>k, <2>f DEF Fits
    <3>2. QED
      BY <2>1, <3>0, <3>1, <1>13, <2>f DEF v
  <2>2. ASSUME NEW o \in Outcomes \ {"skipped"}, Write(t, "sigma", "sigma", Pieces[o], "timeline")
        PROVE  PipelineInv'
    <3>0. at[t] = "sigma" /\ Pieces[o] \in {{"latest"}, {"half"}} /\ Pieces[o] \in SUBSET Piece
      BY <2>2, <1>v DEF Write, Piece
    <3>1. Fits("timeline", force, [w EXCEPT !["sigma"] = Pieces[o]])
      BY <3>0, <2>k, <2>f DEF Fits
    <3>2. QED
      BY <2>2, <3>0, <3>1, <1>13, <2>f
  <2>3. CASE Open(t)
    <3>0. at[t] = "timeline" /\ {"half"} \in SUBSET Piece
      BY <2>3 DEF Open, Write, Piece
    <3>1. Fits("export", force, [w EXCEPT !["timeline"] = {"half"}])
      BY <3>0, <2>k, <2>f DEF Fits
    <3>2. QED
      BY <2>3, <3>0, <3>1, <1>13, <2>f DEF Open
  <2>4. CASE Export(t)
    <3> DEFINE v == Has(t, "parsed") \cup Has(t, "sigma")
    <3>0. at[t] = "export" /\ v \in SUBSET Piece /\ v = w["parsed"] \cup w["sigma"]
      BY <2>4, <2>o, <2>f DEF Export, Write
    <3> HIDE DEF v
    <3>1. Fits("matches", force, [w EXCEPT !["timeline"] = v])
      BY <3>0, <2>k, <2>f DEF Fits
    <3>2. QED
      BY <2>4, <3>0, <3>1, <1>13, <2>f DEF Export, v
  <2>5. CASE Detect(t)
    <3>0. at[t] = "matches" /\ {"latest"} \in SUBSET Piece /\ Has(t, "matches") = w["matches"]
          /\ w["matches"] \in SUBSET Piece
      BY <2>5, <2>o, <2>f DEF Detect, Write, Piece
    <3>1. /\ Fits("finish", force, [w EXCEPT !["matches"] = {"latest"}])
          /\ Fits("finish", force, [w EXCEPT !["matches"] = w["matches"]])
      BY <3>0, <2>k, <2>f DEF Fits
    <3>2. QED
      BY <2>5, <3>0, <3>1, <1>13, <2>f DEF Detect
  <2>6. QED
    BY <1>14, <2>1, <2>2, <2>3, <2>4, <2>5 DEF Parse, Sigma
<1>15. CASE Finish(t)
  <2>1. OnlyMoves(t) /\ at'[t] = "done" /\ at[t] = "finish" /\ at[t] \in Holding
        /\ at'[t] \in Holding
    BY <1>15, <1>q DEF Finish, Holding, Running, Place
  <2> DEFINE w == out[J(t)]
  <2>2. w \in [Output -> SUBSET Piece] /\ Fits("finish", msg[t].force, w)
    BY <2>1, <1>k
  <2>3. \A f \in Files : "half" \notin w[f]
    BY <1>15 DEF Finish, StageFailed, Has
  <2>4. PICK s \in Completed : (s = "DONE" => "latest" \in w["matches"]) /\ SetStatus(J(t), s)
    BY <1>15 DEF Finish, Has
  <2>5. status'[J(t)] = s /\ \A k \in Job \ {J(t)} : status'[k] = status[k]
    BY <2>1, <2>4, <1>h, <1>s DEF Status
  <2>6. w["sigma"] = {"latest"} /\ w["timeline"] = w["parsed"] \cup w["sigma"]
        /\ (w["matches"] \subseteq {"earlier"} \/ w["matches"] = {"latest"})
    BY <2>2, <2>3 DEF Fits, Files
  <2>7. Whole(s, w)
    BY <2>3, <2>4, <2>6 DEF Whole, Output
  <2>8. msg[t].force => \A f \in Files : w[f] \subseteq {"latest"}
    BY <2>2, <2>3 DEF Fits, Running
  <2>9. Fits("done", msg[t].force, w)
    BY <2>8 DEF Fits, Running
  <2>10. QED
    BY <1>15, <2>1, <2>5, <2>7, <2>9, <1>t, InsideStep DEF Finish, Running
<1>16. CASE Fail(t)
  <2>1. OnlyMoves(t) /\ at'[t] = "failed" /\ at[t] \in Holding /\ at'[t] \in Holding
    BY <1>16, <1>q DEF Fail, Holding, Place
  <2>2. status'[J(t)] \notin Completed /\ \A k \in Job \ {J(t)} : status'[k] = status[k]
    BY <1>16, <2>1, <1>h, <1>s, <1>n DEF Fail
  <2>3. Fits("failed", msg[t].force, out[J(t)])
    BY DEF Fits, Running
  <2>4. QED
    BY <1>16, <2>1, <2>2, <2>3, <1>t, InsideStep DEF Fail, Running, Whole
<1>17. CASE Release(t)
  <2>1. OnlyMoves(t) /\ at'[t] \notin Holding /\ at[t] \in Holding
    BY <1>17, <1>e, <1>r, <1>p DEF Release, Holding
  <2>2. QED
    BY <1>17, <2>1, <1>t, LeaveStep DEF Release
<1>18. CASE TimeUp(t)
  <2>1. at[t] \in Holding /\ J(t) \in Job
    BY <1>18, <1>h DEF TimeUp
  <2>2. OnlyMoves(t) /\ at'[t] \notin Holding
    BY <1>18, <1>e, <1>q, <1>p DEF TimeUp, Holding, Running, Place
  <2>3. \A k \in Job : status'[k] = status[k] \/ status'[k] \notin Completed
    BY <1>18, <2>1, <1>s, <1>n DEF TimeUp
  <2>4. QED
    BY <1>18, <2>1, <2>2, <2>3, <1>t, LeaveStep DEF TimeUp
<1>19. CASE Crash(t)
  <2>1. OnlyMoves(t) /\ at'[t] \notin Holding /\ at[t] \in Holding
    BY <1>19, <1>e, <1>q, <1>p DEF Crash, Place
  <2>2. QED
    BY <1>19, <2>1, <1>t, LeaveStep DEF Crash
<1>20. QED
  BY <1>1, <1>2, <1>3, <1>4, <1>5, <1>6, <1>7, <1>8, <1>9, <1>10, <1>11, <1>12, <1>14,
     <1>15, <1>16, <1>17, <1>18, <1>19
  DEF Request, Deliver, Work

\* A step that changes nothing of the pipelines.
LEMMA PipelineStutter ==
  ASSUME PipelineInv, UNCHANGED vars
  PROVE  PipelineInv'
  BY DEF PipelineInv, TypeOK, HolderHasLock, RunFits, CompletedIsWhole, vars, J

\* The inductive invariant holds throughout, whatever requests, deliveries,
\* failures and killed workers interleave.
THEOREM PipelineInvariance == Spec => []PipelineInv
<1>1. PipelineInv /\ [Next]_vars => PipelineInv'
  BY PipelineStep, PipelineStutter DEF Next
<1>2. QED
  BY <1>1, PipelineInit, PTL DEF Spec

\* Rows, files, locks and messages of the pipelines are always well formed.
THEOREM TypeCorrect == Spec => []TypeOK
  BY PipelineInvariance, PTL DEF PipelineInv

\* A row that says DONE or PARTIAL always stands beside outputs that belong
\* together: those of its own run, but for parsed files that earlier runs left,
\* which its timeline holds as well, and for matches it did not renew.
THEOREM CompletedStaysWhole == Spec => []CompletedIsWhole
  BY PipelineInvariance, PTL DEF PipelineInv

\* A forced rebuild that completes leaves nothing of an earlier run in its files.
THEOREM RebuildStaysClean == Spec => []RebuildIsClean
<1>1. PipelineInv => RebuildIsClean
  BY DEF PipelineInv, RunFits, Fits, RebuildIsClean, Holding
<1>2. QED
  BY <1>1, PipelineInvariance, PTL

-----------------------------------------------------------------------------
(* The builds of the super timeline.                                       *)

\* A build at work holds the lock of the incident, so there is only one.
BuilderHasLock == \A b \in Reader : pos[b] \in Building \cup Ended => tlock = b

\* A build that reads holds the workspace of every timeline it picked.
ReaderHasLocks ==
  \A b \in Reader : pos[b] = "ingest" => \A j \in picked[b] : lock[j] = b

\* A build under way is not yet reported as done, and commits its own file.
BuildUnderWay ==
  \A b \in Reader :
    /\ pos[b] \in Building \ {"locked"} => tl # "DONE"
    /\ pos[b] = "commit" => duck = "fresh"

TLInv ==
  PipelineInv /\ TLTypeOK /\ BuilderHasLock /\ ReaderHasLocks /\ BuildUnderWay
  /\ PublishedTogether

-----------------------------------------------------------------------------
\* Initially there is no build.
LEMMA TimelineInit == TLInit => TLInv
<1> SUFFICES ASSUME TLInit PROVE TLInv
  OBVIOUS
<1> USE PipelineAssumption DEF TLInit
<1>1. PipelineInv
  BY PipelineInit
<1>2. TLTypeOK
  BY <1>1 DEF PipelineInv, TLTypeOK, BuildPlace
<1>3. BuilderHasLock /\ ReaderHasLocks /\ BuildUnderWay
  BY DEF BuilderHasLock, ReaderHasLocks, BuildUnderWay, Building, Ended
<1>4. PublishedTogether
  BY DEF PublishedTogether
<1>5. QED
  BY <1>1, <1>2, <1>3, <1>4 DEF TLInv

\* A build that touches no workspace lock of a pipeline leaves the pipelines
\* in order.
LEMMA PipelinesKept ==
  ASSUME PipelineInv, UNCHANGED others, crashes' \in 0..MaxCrashes,
         lock' \in [Job -> Task \cup Reader \cup {None}],
         \A j \in Job : lock[j] \in Task => lock'[j] = lock[j]
  PROVE  PipelineInv'
<1>i. TypeOK /\ HolderHasLock /\ RunFits /\ CompletedIsWhole
  BY DEF PipelineInv
<1>j. \A u \in Task : J(u)' = J(u) /\ at'[u] = at[u]
  BY DEF J, others
<1>1. TypeOK'
  BY <1>i DEF TypeOK, others
<1>2. HolderHasLock'
  <2> SUFFICES ASSUME NEW u \in Task, at[u] \in Holding PROVE lock'[J(u)] = u
    BY <1>j DEF HolderHasLock
  <2>1. lock[J(u)] = u /\ J(u) \in Job
    BY <1>i, JobOfMessage DEF HolderHasLock, Holding, Running
  <2>2. QED
    BY <2>1
<1>3. RunFits'
  BY <1>i, <1>j DEF RunFits, others
<1>4. CompletedIsWhole'
  BY <1>i DEF CompletedIsWhole, others
<1>5. QED
  BY <1>1, <1>2, <1>3, <1>4 DEF PipelineInv

\* A pipeline never takes or frees a lock that a build holds.
LEMMA BuildLocksKept ==
  ASSUME PipelineInv, NEW t \in Task,
         Request(t) \/ Deliver(t) \/ Work(t) \/ TimeUp(t) \/ Crash(t)
  PROVE  \A j \in Job : lock[j] \in Reader => lock'[j] = lock[j]
<1> USE PipelineAssumption
<1>i. TypeOK /\ HolderHasLock
  BY DEF PipelineInv
<1>1. CASE lock' = lock
  BY <1>1
<1>2. CASE Lock(t)
  BY <1>2, <1>i, JobOfMessage DEF Lock, TypeOK
<1>3. CASE at[t] \in Holding /\ lock' = [lock EXCEPT ![J(t)] = None]
  <2>1. lock[J(t)] = t
    BY <1>3, <1>i DEF HolderHasLock
  <2>2. QED
    BY <1>3, <2>1, <1>i DEF TypeOK
<1>4. Request(t) \/ Busy(t) => lock' = lock
  BY DEF Request, Trigger, Reserve, AutoProcess, IngestProcess, Publish, QueueFails,
         RequestDies, Busy
<1>5. Work(t) => lock' = lock \/ Release(t)
  BY DEF Work, Skip, Begin, Prepare, Parse, Sigma, Open, Export, Detect, Write, Finish, Fail
<1>6. Release(t) \/ TimeUp(t) \/ Crash(t)
        => at[t] \in Holding /\ lock' = [lock EXCEPT ![J(t)] = None]
  BY DEF Release, TimeUp, Crash, Holding
<1>7. QED
  BY <1>1, <1>2, <1>3, <1>4, <1>5, <1>6 DEF Deliver

\* Every step of a pipeline keeps the invariant.
LEMMA TimelineOfPipelineStep ==
  ASSUME TLInv, Next, UNCHANGED timeline
  PROVE  TLInv'
<1>1. PICK t \in Task : Request(t) \/ Deliver(t) \/ Work(t) \/ TimeUp(t) \/ Crash(t)
  BY DEF Next
<1>2. PipelineInv'
  BY <1>1, PipelineStep DEF TLInv
<1>3. TLTypeOK'
  BY <1>2 DEF TLInv, TLTypeOK, PipelineInv, timeline
<1>4. ReaderHasLocks'
  <2> SUFFICES ASSUME NEW b \in Reader, pos[b] = "ingest", NEW j \in picked[b]
               PROVE  lock'[j] = b
    BY DEF ReaderHasLocks, timeline
  <2>1. j \in Job /\ lock[j] = b
    BY DEF TLInv, TLTypeOK, ReaderHasLocks
  <2>2. QED
    BY <2>1, <1>1, BuildLocksKept DEF TLInv
<1>5. BuilderHasLock' /\ BuildUnderWay' /\ PublishedTogether'
  BY DEF TLInv, BuilderHasLock, BuildUnderWay, PublishedTogether, timeline
<1>6. QED
  BY <1>2, <1>3, <1>4, <1>5 DEF TLInv

\* What freeing the workspaces of b does to the locks.
LEMMA FreeHeldKeeps ==
  ASSUME PipelineInv, NEW b \in Reader, FreeHeld(b)
  PROVE  /\ lock' \in [Job -> Task \cup Reader \cup {None}]
         /\ \A j \in Job : lock[j] # b => lock'[j] = lock[j]
         /\ \A j \in Job : lock[j] \in Task => lock'[j] = lock[j]
  BY PipelineAssumption DEF FreeHeld, PipelineInv, TypeOK

\* A step outside the locks: whatever it does to the row, it does not end a
\* build, and it leaves file, rows and locks alone.
LEMMA RequestStep ==
  ASSUME TLInv, NEW b \in Reader, NEW p \in BuildPlace, Move(b, p),
         UNCHANGED <<others, lock, crashes, duck, moves, tlock, picked>>,
         pos[b] \notin Building \cup Ended, p \notin Building \cup Ended,
         tl' \in {tl, "PENDING", "FAILED"}, left' \in [Reader -> 0..1]
  PROVE  TLInv'
<1>i. PipelineInv /\ TLTypeOK /\ BuilderHasLock /\ ReaderHasLocks /\ BuildUnderWay
      /\ PublishedTogether
  BY DEF TLInv
<1>m. pos' \in [Reader -> BuildPlace] /\ pos'[b] = p
      /\ \A c \in Reader \ {b} : pos'[c] = pos[c]
  BY <1>i DEF Move, TLTypeOK
<1>1. PipelineInv'
  BY <1>i, PipelinesKept DEF PipelineInv, TypeOK
<1>2. TLTypeOK'
  BY <1>1, <1>m, <1>i DEF PipelineInv, TLTypeOK, BuildStatus
<1>3. BuilderHasLock'
  BY <1>m, <1>i DEF BuilderHasLock
<1>4. ReaderHasLocks'
  BY <1>m, <1>i DEF ReaderHasLocks, Building
<1>5. BuildUnderWay'
  BY <1>m, <1>i DEF BuildUnderWay, Building
<1>6. PublishedTogether'
  BY <1>i DEF PublishedTogether
<1>7. QED
  BY <1>1, <1>2, <1>3, <1>4, <1>5, <1>6 DEF TLInv

\* A step of the build that holds the lock of the incident: it moves on inside
\* the lock, and what it leaves fits the place it reaches.
LEMMA InsideBuildStep ==
  ASSUME TLInv, NEW b \in Reader, NEW p \in Building \cup Ended, Move(b, p),
         pos[b] \in Building \cup Ended,
         UNCHANGED <<others, crashes, tlock, left>>,
         lock' \in [Job -> Task \cup Reader \cup {None}],
         \A j \in Job : lock[j] \in Task => lock'[j] = lock[j],
         tl' \in BuildStatus \cup {None},
         duck' \in {None, "stale", "fresh"}, moves' \in {None, "stale", "fresh"},
         picked' \in [Reader -> SUBSET Job],
         p = "ingest" => \A j \in picked'[b] : lock'[j] = b,
         p \in Building \ {"locked"} => tl' # "DONE",
         p = "commit" => duck' = "fresh",
         tl' = "DONE" => duck' = "fresh" /\ moves' = "fresh"
  PROVE  TLInv'
<1>i. PipelineInv /\ TLTypeOK /\ BuilderHasLock /\ ReaderHasLocks /\ BuildUnderWay
      /\ PublishedTogether
  BY DEF TLInv
<1>p. p \in BuildPlace
  BY DEF BuildPlace
<1>m. pos' \in [Reader -> BuildPlace] /\ pos'[b] = p
      /\ \A c \in Reader \ {b} : pos'[c] = pos[c]
  BY <1>p, <1>i DEF Move, TLTypeOK
<1>a. \A c \in Reader \ {b} : pos'[c] \notin Building \cup Ended
  BY <1>m, <1>i DEF BuilderHasLock
<1>1. PipelineInv'
  BY <1>i, PipelinesKept DEF PipelineInv, TypeOK
<1>2. TLTypeOK'
  BY <1>1, <1>m, <1>i DEF PipelineInv, TLTypeOK
<1>3. BuilderHasLock'
  BY <1>m, <1>a, <1>i DEF BuilderHasLock
<1>4. ReaderHasLocks'
  BY <1>m, <1>a DEF ReaderHasLocks, Building
<1>5. BuildUnderWay'
  BY <1>m, <1>a DEF BuildUnderWay, Building
<1>6. PublishedTogether'
  BY DEF PublishedTogether
<1>7. QED
  BY <1>1, <1>2, <1>3, <1>4, <1>5, <1>6 DEF TLInv

\* The build leaves the lock of the incident.
LEMMA LeaveBuildStep ==
  ASSUME TLInv, NEW b \in Reader, NEW p \in {"idle", "queued"}, Move(b, p),
         pos[b] \in Building \cup Ended, tlock' = None,
         UNCHANGED <<others, tl, duck, moves>>, crashes' \in 0..MaxCrashes,
         lock' \in [Job -> Task \cup Reader \cup {None}],
         \A j \in Job : lock[j] \in Task => lock'[j] = lock[j],
         left' \in [Reader -> 0..1], picked' = [picked EXCEPT ![b] = {}]
  PROVE  TLInv'
<1>i. PipelineInv /\ TLTypeOK /\ BuilderHasLock /\ ReaderHasLocks /\ BuildUnderWay
      /\ PublishedTogether
  BY DEF TLInv
<1>p. p \in BuildPlace /\ p \notin Building \cup Ended
  BY DEF BuildPlace, Building, Ended
<1>m. pos' \in [Reader -> BuildPlace] /\ pos'[b] = p
      /\ \A c \in Reader \ {b} : pos'[c] = pos[c]
  BY <1>p, <1>i DEF Move, TLTypeOK
<1>a. \A c \in Reader : pos'[c] \notin Building \cup Ended
  BY <1>m, <1>p, <1>i DEF BuilderHasLock
<1>1. PipelineInv'
  BY <1>i, PipelinesKept
<1>2. TLTypeOK'
  BY <1>1, <1>m, <1>i DEF PipelineInv, TLTypeOK
<1>3. BuilderHasLock' /\ ReaderHasLocks' /\ BuildUnderWay'
  BY <1>a DEF BuilderHasLock, ReaderHasLocks, BuildUnderWay, Building
<1>4. PublishedTogether'
  BY <1>i DEF PublishedTogether
<1>5. QED
  BY <1>1, <1>2, <1>3, <1>4 DEF TLInv

-----------------------------------------------------------------------------
\* Every step of a request for a build, or of a build, keeps the invariant.
LEMMA BuildStep ==
  ASSUME TLInv, NEW b \in Reader,
         RequestBuild(b) \/ DeliverBuild(b) \/ WorkBuild(b) \/ CrashBuild(b)
  PROVE  TLInv'
<1> USE PipelineAssumption
<1>i. PipelineInv /\ TLTypeOK /\ BuilderHasLock /\ ReaderHasLocks /\ BuildUnderWay
      /\ PublishedTogether
  BY DEF TLInv
<1>t. /\ lock \in [Job -> Task \cup Reader \cup {None}] /\ crashes \in 0..MaxCrashes
      /\ tl \in BuildStatus \cup {None} /\ left \in [Reader -> 0..1]
      /\ duck \in {None, "stale", "fresh"} /\ moves \in {None, "stale", "fresh"}
      /\ picked \in [Reader -> SUBSET Job]
  BY <1>i DEF TLTypeOK, PipelineInv, TypeOK
<1>p. /\ {"idle", "checked", "reserved", "queued"} \subseteq BuildPlace
      /\ {"idle", "checked", "reserved", "queued"} \cap (Building \cup Ended) = {}
  BY DEF BuildPlace, Building, Ended
<1>s. {"PENDING", "BUILDING", "DONE", "FAILED"} = BuildStatus
  BY DEF BuildStatus
<1>w. pos[b] \in Building \ {"locked"} => tl # "DONE"
  BY <1>i DEF BuildUnderWay
<1>f. FreeHeld(b) => /\ lock' \in [Job -> Task \cup Reader \cup {None}]
                     /\ \A j \in Job : lock[j] \in Task => lock'[j] = lock[j]
  BY <1>i, FreeHeldKeeps
<1>1. CASE TriggerBuild(b)
  <2>1. left' \in [Reader -> 0..1]
    BY <1>1, <1>t DEF TriggerBuild
  <2>2. QED
    BY <1>1, <2>1, <1>p, RequestStep DEF TriggerBuild
<1>2. CASE ReserveBuild(b) \/ PublishBuild(b) \/ QueueBuildFails(b) \/ BuildRequestDies(b)
  BY <1>2, <1>t, <1>p, RequestStep
  DEF ReserveBuild, PublishBuild, QueueBuildFails, BuildRequestDies
<1>3. CASE BuildBusy(b)
  BY <1>3, <1>t, <1>p, RequestStep DEF BuildBusy
<1>4. CASE LockBuild(b)
  <2>a. \A c \in Reader : pos[c] \notin Building \cup Ended
    BY <1>4, <1>i DEF LockBuild, BuilderHasLock
  <2>m. pos' \in [Reader -> BuildPlace] /\ pos'[b] = "locked"
        /\ \A c \in Reader \ {b} : pos'[c] = pos[c]
    BY <1>4, <1>i DEF LockBuild, Move, TLTypeOK, BuildPlace, Building
  <2>1. PipelineInv'
    BY <1>4, <1>i, <1>t, PipelinesKept DEF LockBuild
  <2>2. TLTypeOK'
    BY <1>4, <2>1, <2>m, <1>i DEF LockBuild, PipelineInv, TLTypeOK
  <2>3. BuilderHasLock' /\ ReaderHasLocks' /\ BuildUnderWay' /\ PublishedTogether'
    BY <1>4, <2>a, <2>m, <1>i
    DEF LockBuild, BuilderHasLock, ReaderHasLocks, BuildUnderWay, PublishedTogether, Building
  <2>4. QED
    BY <2>1, <2>2, <2>3 DEF TLInv
<1>5. CASE BeginBuild(b)
  <2>1. duck' \in {None, "stale", "fresh"} /\ moves' \in {None, "stale", "fresh"}
    BY <1>5, <1>t DEF BeginBuild, Older
  <2>2. QED
    BY <1>5, <2>1, <1>t, <1>s, InsideBuildStep DEF BeginBuild, Building
<1>6. CASE Pick(b)
  <2>1. picked' \in [Reader -> SUBSET Job]
    BY <1>6, <1>t DEF Pick
  <2>2. \/ tl' = "FAILED" /\ Move(b, "refused")
        \/ tl' = tl /\ Move(b, "acquire")
    BY <1>6 DEF Pick
  <2>3. tl' # "DONE" /\ tl' \in BuildStatus \cup {None}
    BY <1>6, <2>2, <1>w, <1>t, <1>s DEF Pick, Building
  <2>4. QED
    BY <1>6, <2>1, <2>2, <2>3, <1>t, InsideBuildStep DEF Pick, Building, Ended
<1>7. ASSUME NEW j \in Job, Acquire(b, j) PROVE TLInv'
  <2>1. /\ lock' \in [Job -> Task \cup Reader \cup {None}] /\ lock'[j] = b
        /\ \A k \in Job \ {j} : lock'[k] = lock[k]
    BY <1>7, <1>t DEF Acquire
  <2>2. \A k \in Job : lock[k] \in Task => lock'[k] = lock[k]
    BY <1>7, <2>1 DEF Acquire
  <2>3. tl' = tl /\ tl # "DONE"
    BY <1>7, <1>w DEF Acquire, Building
  <2>4. CASE picked[b] = Held(b) \cup {j} /\ Move(b, "ingest")
    <3>1. \A k \in picked'[b] : lock'[k] = b
      BY <1>7, <2>1, <2>4, <1>t DEF Acquire, Held
    <3>2. QED
      BY <1>7, <2>1, <2>2, <2>3, <2>4, <3>1, <1>t, InsideBuildStep DEF Acquire, Building
  <2>5. CASE Move(b, "acquire")
    BY <1>7, <2>1, <2>2, <2>3, <2>5, <1>t, InsideBuildStep DEF Acquire, Building
  <2>6. QED
    BY <1>7, <2>4, <2>5 DEF Acquire
<1>8. CASE SourceBusy(b)
  BY <1>8, <1>f, <1>t, <1>s, InsideBuildStep DEF SourceBusy, Building, Ended
<1>9. CASE Merge(b)
  BY <1>9, <1>f, <1>t, <1>w, InsideBuildStep DEF Merge, Building
<1>10. CASE SwapFile(b)
  BY <1>10, <1>t, <1>w, InsideBuildStep DEF SwapFile, Building
<1>11. CASE CommitBuild(b)
  <2>1. duck = "fresh"
    BY <1>11, <1>i DEF CommitBuild, BuildUnderWay
  <2>2. QED
    BY <1>11, <2>1, <1>t, <1>s, InsideBuildStep DEF CommitBuild, Building, Ended
<1>12. CASE BuildFails(b)
  <2>1. tl # "DONE"
    BY <1>12, <1>w DEF BuildFails, Building
  <2>2. \/ tl' = "FAILED" /\ Move(b, "failed")
        \/ tl' \in {tl, "FAILED"} /\ Move(b, "refused")
    BY <1>12 DEF BuildFails
  <2>3. tl' # "DONE" /\ tl' \in BuildStatus \cup {None}
    BY <2>1, <2>2, <1>t, <1>s
  <2>4. QED
    BY <1>12, <2>2, <2>3, <1>f, <1>t, InsideBuildStep DEF BuildFails, Building, Ended
<1>13. CASE ReleaseBuild(b)
  <2>1. left' \in [Reader -> 0..1]
    BY <1>13, <1>t DEF ReleaseBuild
  <2>2. Move(b, "queued") \/ Move(b, "idle")
    BY <1>13 DEF ReleaseBuild
  <2>3. QED
    BY <1>13, <2>1, <2>2, <1>t, LeaveBuildStep DEF ReleaseBuild
<1>14. CASE CrashBuild(b)
  <2>1. crashes' \in 0..MaxCrashes
    BY <1>14, <1>t DEF CrashBuild
  <2>2. QED
    BY <1>14, <2>1, <1>f, <1>t, LeaveBuildStep DEF CrashBuild
<1>15. QED
  BY <1>1, <1>2, <1>3, <1>4, <1>5, <1>6, <1>7, <1>8, <1>9, <1>10, <1>11, <1>12, <1>13, <1>14
  DEF RequestBuild, DeliverBuild, WorkBuild

\* A step that changes nothing.
LEMMA TimelineStutter ==
  ASSUME TLInv, UNCHANGED tlvars
  PROVE  TLInv'
<1>1. PipelineInv'
  BY PipelineStutter DEF TLInv, tlvars
<1>2. QED
  BY <1>1 DEF TLInv, TLTypeOK, PipelineInv, BuilderHasLock, ReaderHasLocks, BuildUnderWay,
              PublishedTogether, tlvars, vars, timeline

\* The inductive invariant holds throughout, whatever pipelines and builds do
\* to each other and wherever their workers are killed.
THEOREM TimelineInvariance == TLSpec => []TLInv
<1>1. TLInv /\ [TLNext]_tlvars => TLInv'
  BY TimelineOfPipelineStep, BuildStep, TimelineStutter DEF TLNext
<1>2. QED
  BY <1>1, TimelineInit, PTL DEF TLSpec

\* A super timeline that says DONE always has the file and the detections of
\* one build, the last that began.
THEOREM PublishedStaysTogether == TLSpec => []PublishedTogether
<1>1. TLInv => PublishedTogether
  BY DEF TLInv
<1>2. QED
  BY <1>1, TimelineInvariance, PTL

\* No pipeline writes a timeline that a build is reading.
THEOREM ReadersAlone == TLSpec => []ReadsUndisturbed
<1>1. TLInv => ReadsUndisturbed
  <2> SUFFICES ASSUME TLInv, NEW b \in Reader, NEW t \in Task,
                      pos[b] = "ingest", at[t] \in Holding, J(t) \in picked[b]
               PROVE  FALSE
    BY DEF ReadsUndisturbed
  <2>1. lock[J(t)] = b
    BY DEF TLInv, ReaderHasLocks
  <2>2. lock[J(t)] = t
    BY DEF TLInv, PipelineInv, HolderHasLock
  <2>3. QED
    BY <2>1, <2>2, PipelineAssumption
<1>2. QED
  BY <1>1, TimelineInvariance, PTL
=============================================================================
