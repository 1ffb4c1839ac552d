---------------------------- MODULE ProcessingPages ----------------------------
(***************************************************************************)
(* IncidentHub and ProcessingStatus: two pages over one processing job.    *)
(* They share the cache entry of its status (q; "null" when the hub was    *)
(* told that there is no job) and poll it while the pipeline runs; the     *)
(* second page also polls the pipeline's log.                              *)
(***************************************************************************)
EXTENDS PageFrame, Sequences

JobPages == {"hub", "processing"}
\* What these pages do after PARTIAL is what they do after DONE.
Finished == {"DONE", "FAILED"}
Running(p) == p \in {"PENDING", "RUNNING"}

\* An incident is collecting while a job of it is pending.
\* inc, tl: the incident and the super timeline, as the hub was last told;
\* closing, starting: requests of the buttons; stat, log: what each poller
\* does; era: how often polling was switched off; lines, last: the log shown
\* and lastLogSeqRef.
JobF == [inc |-> "unknown", tl |-> "none", closing |-> FALSE, starting |-> "no",
         stat |-> "idle", log |-> "idle", era |-> 0, lines |-> <<>>, last |-> 0]
job  == IF q.have THEN q.rows ELSE "null"

JobTypeOK ==
  /\ db.ver \in Nat
  /\ db.rows \in [inc : {"collecting", "complete", "closed"}, proc : {"none", "PENDING", "RUNNING"} \cup Finished,
                  tl : {"none", "BUILDING", "DONE"}, logs : Nat]
  /\ q.have => q.rows \in {"null", "PENDING", "RUNNING"} \cup Finished
  /\ f.inc \in {"unknown", "collecting", "complete", "closed"} /\ f.tl \in {"none", "BUILDING", "DONE"}
  /\ f.closing \in BOOLEAN /\ f.starting \in {"no", "post", "reload"}
  /\ f.stat \in {"idle", "fly"} /\ f.log \in {"idle", "fly"}
  /\ f.era \in Nat /\ f.last \in 0..db.rows.logs /\ \A i \in DOMAIN f.lines : f.lines[i] \in 1..db.rows.logs

-----------------------------------------------------------------------------
(* The status query.                                                       *)

StatusFlying == \E c \in Slot : net[c].st # "idle" /\ net[c].kind = "status"
\* A fetch runs with the options of the page that starts it.
AskStatus(n, who) == With([c \in Slot |-> IF n[c].kind = "status" THEN NoCall ELSE n[c]], "status", Arg(who, "first"), TRUE)

\* Mutant: refetch() starts a second fetch beside the first.
RefetchBeside(n) == With(n, "status", Arg(page, "first"), TRUE)

\* refetch() joins the first fetch and replaces any other.
Refetch(n)   == IF StatusFlying /\ ~q.have THEN n ELSE AskStatus(n, page)

\* Mounting: the hub asks for the incident and the timeline as well.
Mounts(n) == LET m == IF page' = "hub" THEN With(n, "incident", Nothing, TRUE) ELSE n IN
             \/ net' = IF StatusFlying THEN m ELSE AskStatus(m, page')
             \/ q.have /\ net' = m
JobInit ==
  /\ page \in JobPages /\ f = JobF
  /\ \E i \in {"collecting", "complete"}, p \in {"none", "RUNNING"} :
       /\ <<page, i, p>> \in {<<"hub", "collecting", "none">>, <<"processing", "complete", "none">>, <<"processing", "complete", "RUNNING">>}
       /\ db = [ver |-> 0, rows |-> [inc |-> i, proc |-> p, tl |-> "none", logs |-> 1]]
  /\ net = LET n == With([c \in Slot |-> NoCall], "status", Arg(page, "first"), TRUE) IN
           IF page = "hub" THEN With(n, "incident", Nothing, TRUE) ELSE n

\* pollingEnabled and isRunning; when they turn false the pollers end, their
\* requests go on.
Polled(g, p) == Running(p) \/ (page = "hub" /\ g.tl = "BUILDING")
Turned(g, old, new) ==
  IF Polled(f, old) /\ ~Polled(g, new) THEN [g EXCEPT !.stat = "idle", !.log = "idle", !.era = @ + 1] ELSE g
Settled(g) == [g EXCEPT !.stat = "idle", !.starting = IF @ = "reload" THEN "no" ELSE @]

Sees(c, entry) ==
  /\ q' = entry /\ net' = Without(net, c)
  /\ f' = IF mounted THEN Turned(Settled(f), job, IF entry.have THEN entry.rows ELSE "null") ELSE f
  /\ UNCHANGED <<page, mounted, db, used, faults>>
StatusArrives(c) == /\ Resolved(c, "status")
                    /\ Sees(c, [q EXCEPT !.have = TRUE, !.ver = net[c].res.ver, !.rows = net[c].res.rows.proc, !.err = FALSE])
\* apiGetOrNull: for the hub a 404 is an answer.
Absent(c)        == Rejected(c, "status") /\ net[c].res = "absent"
StatusAbsent(c)  == /\ Absent(c) /\ net[c].arg.row = "hub"
                    /\ Sees(c, [q EXCEPT !.have = TRUE, !.rows = "null", !.err = FALSE])
\* The hub's fetch is tried again by the query, the other page's is not.
StatusAgain(c)   == /\ Rejected(c, "status") /\ ~Absent(c) /\ net[c].arg = Arg("hub", "first")
                    /\ net' = [net EXCEPT ![c] = NewCall("status", Arg("hub", "again"), net[c].live)]
                    /\ UNCHANGED <<page, mounted, f, q, db, used, faults>>
StatusFails(c)   == /\ Rejected(c, "status")
                    /\ net[c].arg.row = "processing" \/ (~Absent(c) /\ net[c].arg.val = "again")
                    /\ Sees(c, [q EXCEPT !.err = TRUE])

IncidentArrives(c) ==
  /\ Resolved(c, "incident")
  /\ LET g == [f EXCEPT !.inc = net[c].res.rows.inc, !.tl = net[c].res.rows.tl] IN Then(c, Turned(g, job, job), Without(net, c))
IncidentFails(c)   == Rejected(c, "incident") /\ Then(c, f, Without(net, c))

-----------------------------------------------------------------------------
(* The server, and the pipeline behind it.                                 *)

ServeStatus(c) ==
  /\ Asked(c, "status")
  /\ IF db.rows.proc = "none" THEN Serve(c, FALSE, "absent") ELSE Serve(c, TRUE, Result(db.ver, db.rows, None))
  /\ UNCHANGED <<page, mounted, f, q, db, used, faults>>
ServeIncident(c) ==
  /\ Asked(c, "incident") /\ Serve(c, TRUE, Result(db.ver, db.rows, None))
  /\ UNCHANGED <<page, mounted, f, q, db, used, faults>>
ServeLogs(c) ==
  /\ Asked(c, "logs") /\ Serve(c, TRUE, [from |-> net[c].arg.since + 1, to |-> db.rows.logs])
  /\ UNCHANGED <<page, mounted, f, q, db, used, faults>>
Answers(c, ok, new) ==
  /\ Serve(c, ok, Nothing) /\ db' = [ver |-> IF new = db.rows THEN db.ver ELSE db.ver + 1, rows |-> new]
  /\ UNCHANGED <<page, mounted, f, q, used, faults>>
\* The job is locked: of two requests the second finds the pipeline started.
Starts(c) == /\ db.rows.inc # "collecting"
             /\ db.rows.proc \in {"none", "FAILED"} \/ (db.rows.proc \in Finished /\ net[c].arg = "force")
ServeTrigger(c) ==
  /\ Asked(c, "trigger")
  /\ Answers(c, db.rows.inc # "collecting", IF Starts(c) THEN [db.rows EXCEPT !.proc = "PENDING"] ELSE db.rows)
\* The broker is away: the error has already been recorded when it is told.
TriggerUnqueued(c) ==
  /\ Asked(c, "trigger") /\ Starts(c) /\ faults < MaxFaults /\ faults' = faults + 1
  /\ Serve(c, FALSE, Nothing) /\ Event
  /\ db' = [ver |-> db.ver + 1, rows |-> [db.rows EXCEPT !.proc = "FAILED"]]
  /\ UNCHANGED <<page, mounted, f, q>>
\* The gate in front of CLOSED; an incident that is closed may be closed again.
ServeClose(c) ==
  LET settled == db.rows.inc # "collecting" /\ ~Running(db.rows.proc) /\ db.rows.tl # "BUILDING" IN
  /\ Asked(c, "close")
  /\ Answers(c, settled, [db.rows EXCEPT !.inc = IF settled THEN "closed" ELSE @])

Moves(new) == db' = [ver |-> db.ver + 1, rows |-> new] /\ UNCHANGED <<page, mounted, f, q, used, net, faults>>
CollectionEnds == page \in JobPages /\ db.rows.inc = "collecting" /\ Moves([db.rows EXCEPT !.inc = "complete"])
PipelineRuns   == page \in JobPages /\ db.rows.proc = "PENDING" /\ Moves([db.rows EXCEPT !.proc = "RUNNING", !.logs = @ + 1])
PipelineEnds   == /\ page \in JobPages /\ db.rows.proc = "RUNNING"
                  /\ \E s \in Finished : Moves([db.rows EXCEPT !.proc = s, !.logs = @ + 1])
TimelineMoves  == /\ page = "hub" /\ db.rows.proc = "DONE" /\ db.rows.tl # "DONE"
                  /\ Moves([db.rows EXCEPT !.tl = IF @ = "none" THEN "BUILDING" ELSE "DONE"])

-----------------------------------------------------------------------------
(* The pollers.                                                            *)

StatusPoll ==
  /\ page \in JobPages /\ mounted /\ f.stat = "idle" /\ Polled(f, job)
  /\ Room(IF page = "hub" THEN 2 ELSE 1)
  /\ f' = [f EXCEPT !.stat = "fly"]
  /\ net' = IF page = "hub" THEN With(Refetch(net), "incident", Nothing, TRUE) ELSE Refetch(net)
  /\ UNCHANGED <<page, mounted, q, db, used, faults>>

LogPoll ==
  /\ OnPage("processing") /\ f.log = "idle" /\ Running(job) /\ Room(1)
  /\ f' = [f EXCEPT !.log = "fly"]
  /\ net' = With(net, "logs", [since |-> f.last, era |-> f.era], TRUE)
  /\ UNCHANGED <<page, mounted, q, db, used, faults>>
\* A poll whose poller has been ended does not schedule the next one.
LogPolled(c) == IF net[c].arg.era = f.era THEN [f EXCEPT !.log = "idle"] ELSE f

\* Mutant: lastLogSeqRef is set where it is declared only.
LogsArriveAll(c) ==
  LET r == net[c].res IN
  /\ Resolved(c, "logs")
  /\ Then(c, [LogPolled(c) EXCEPT !.lines = @ \o [i \in 1..(r.to + 1 - r.from) |-> r.from + i - 1]], Without(net, c))

\* Mutant: lastLogSeqRef names the next line, not the last.
LogsArriveSkips(c) ==
  LET r == net[c].res IN
  /\ Resolved(c, "logs")
  /\ Then(c, [LogPolled(c) EXCEPT !.lines = @ \o [i \in 1..(r.to + 1 - r.from) |-> r.from + i - 1], !.last = r.to + 1],
          Without(net, c))

LogsArrive(c) ==
  LET r == net[c].res IN
  /\ Resolved(c, "logs")
  /\ Then(c, IF r.to < r.from THEN LogPolled(c)
             ELSE [LogPolled(c) EXCEPT !.lines = @ \o [i \in 1..(r.to + 1 - r.from) |-> r.from + i - 1], !.last = r.to],
          Without(net, c))

\* Mutant: the error leaves poll() and nothing is scheduled.
LogsFailUnscheduled(c) == Rejected(c, "logs") /\ Then(c, f, Without(net, c))

LogsFail(c) == Rejected(c, "logs") /\ Then(c, LogPolled(c), Without(net, c))

-----------------------------------------------------------------------------
(* The buttons.                                                            *)

collectionDone == f.inc \in {"complete", "closed"}
\* The PROCESS stage of the workflow bar; its button, like the one of the
\* status panel, starts the pipeline when there is no job yet.
ProcessStage   == IF job \in {"DONE"} THEN "done" ELSE IF Running(job) THEN "active"
                  ELSE IF collectionDone THEN "ready" ELSE "blocked"
StageEnabled   == OnPage("hub") /\ ProcessStage # "blocked"
ActivateShown  == StageEnabled /\ job = "null" /\ collectionDone
CloseShown     == OnPage("hub") /\ f.inc \notin {"unknown", "closed"} /\ canEdit
StartShown     == OnPage("processing") /\ q.err
ReprocessShown == OnPage("processing") /\ job = "DONE" /\ canEdit

activateAnalytics   == /\ ActivateShown /\ f.starting = "no"
                       /\ Calls([f EXCEPT !.starting = "post"], "trigger", "plain")
startProcessing     == /\ StartShown /\ f.starting = "no"
                       /\ Calls([f EXCEPT !.starting = "post"], "trigger", IF job = "DONE" THEN "force" ELSE "plain")
reprocess           == /\ ReprocessShown /\ f.starting = "no"
                       /\ Calls([f EXCEPT !.starting = "post"], "trigger", "force")
\* Only the second page waits for the status; the other poller's fetch that
\* is replaced counts as settled.
ProcessingStarted(c) ==
  /\ Resolved(c, "trigger")
  /\ IF net[c].live
     THEN Then(c, [f EXCEPT !.starting = IF page = "hub" THEN "no" ELSE "reload",
                     !.stat = IF StatusFlying /\ q.have THEN "idle" ELSE @], Refetch(Without(net, c)))
     ELSE Then(c, f, Without(net, c))
ProcessingStartFails(c) == Rejected(c, "trigger") /\ Then(c, [f EXCEPT !.starting = "no"], Without(net, c))

handleCloseIncident == CloseShown /\ ~f.closing /\ Calls([f EXCEPT !.closing = TRUE], "close", Nothing)
IncidentClosed(c)   == /\ Resolved(c, "close") /\ (net[c].live => Room(1))
                       /\ Then(c, [f EXCEPT !.closing = FALSE],
                               IF net[c].live THEN With(Without(net, c), "incident", Nothing, TRUE) ELSE Without(net, c))
CloseFails(c)       == Rejected(c, "close") /\ Then(c, [f EXCEPT !.closing = FALSE], Without(net, c))

\* PROCESSING LOGS and BACK TO HUB.
SwitchPage ==
  /\ page \in JobPages /\ mounted /\ Event
  /\ page' = IF page = "hub" THEN "processing" ELSE "hub"
  /\ f' = JobF
  /\ LET n == [c \in Slot |-> IF net[c].kind \in {"incident", "logs"} THEN NoCall ELSE Orphaned(net)[c]] IN
     Cardinality(FreeIn(n)) > 1 /\ Mounts(n)
  /\ UNCHANGED <<mounted, q, db, faults>>

JobUser ==
  \/ CollectionEnds \/ PipelineRuns \/ PipelineEnds \/ TimelineMoves
  \/ StatusPoll \/ LogPoll \/ activateAnalytics \/ startProcessing \/ reprocess \/ handleCloseIncident \/ SwitchPage
JobServed(c) == ServeStatus(c) \/ ServeIncident(c) \/ ServeLogs(c) \/ ServeTrigger(c) \/ TriggerUnqueued(c) \/ ServeClose(c)
JobContinued(c) ==
  \/ StatusArrives(c) \/ StatusAbsent(c) \/ StatusAgain(c) \/ StatusFails(c) \/ IncidentArrives(c) \/ IncidentFails(c)
  \/ LogsArrive(c) \/ LogsFail(c) \/ ProcessingStarted(c) \/ ProcessingStartFails(c) \/ IncidentClosed(c) \/ CloseFails(c)

-----------------------------------------------------------------------------
(* Properties.                                                             *)

OnJob == page \in JobPages /\ mounted

\* A log line is shown once and in order while one run of the pipeline is
\* watched, whatever polls failed, timed out or were tried again.
LogLinesOnce == OnJob /\ f.era = 0 => \A i, j \in DOMAIN f.lines : i < j => f.lines[i] < f.lines[j]

\* A poller waits for a request that is in flight, and so does every button
\* that is disabled: after any failure the page goes on following the run.
PollersAlive ==
  OnJob => /\ f.stat = "fly" => StatusFlying
           /\ f.log = "fly" => \E c \in Slot : net[c].kind = "logs" /\ net[c].live /\ net[c].arg.era = f.era
           /\ f.starting = "post" => Pending("trigger")
           /\ f.starting = "reload" => StatusFlying
           /\ f.closing => Pending("close")
=============================================================================
