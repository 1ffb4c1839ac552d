------------------------- MODULE CollectionExecution -------------------------
(***************************************************************************)
(* The page that starts, watches and aborts the collection of an incident. *)
(* It joins a collection that is already running, polls it, and asks the   *)
(* server to cancel the jobs one by one.  The analyst may reload it, leave *)
(* it and come back; the calls it made go on without it, and so does the   *)
(* server with a start that nobody waits for any more.  The agents, the    *)
(* scheduler and other clients move the jobs meanwhile.                    *)
(***************************************************************************)
EXTENDS PageCalls, Sequences

CONSTANTS
  Device,         \* the targets of the incident, one job each
  Scheduled,      \* bound: the jobs a scheduled collection may add
  IsViewer,       \* the signed-in user has the viewer role
  MaxLogs,        \* bound: lines of the collection log
  MaxEvents       \* bound: reloads, departures, returns and aborts, and what other clients do

ASSUME ExecutionAssumption ==
  Device # {} /\ Device \cap Scheduled = {} /\ IsViewer \in BOOLEAN /\ MaxLogs \in Nat \ {0} /\ MaxEvents \in Nat

VARIABLES
  \* server
  inc, job,       \* status of the incident and of each job
  running,        \* jobs an agent is executing
  base,           \* lines of the logs deleted so far: line i is the base+i'th ever
  log, cursor,    \* sequence number of the last line, and last_log_index
  starts,         \* COLLECTION STARTED entries in the chain of custody
  handling,       \* start requests past their read of a PENDING incident
  overlapped,     \* (history) one was read while another was handled
  \* client
  fits,           \* the modules in location.state are modules of its osOverride
  mounted, exec,  \* the page and its state
  events

start   == <<starts, handling, overlapped>>
lines   == <<base, log, cursor>>
backend == <<inc, job, running, lines, start>>
client  == <<fits, mounted, exec, events>>
vars    == <<backend, client, net, faults>>

Job      == Device \cup Scheduled
Terminal == {"done", "failed"}   \* a cancelled job counts as a failed one
Handled  == "handled"     \* in res, while the server is at work on a call
ExecInit == [started |-> FALSE, complete |-> FALSE, polling |-> FALSE, timer |-> FALSE,
             abort |-> "no", error |-> "none", shown |-> <<>>]

\* What the server answers: a status, lines of the log, the jobs there are.
Result(s, l, j) == [status |-> s, lines |-> l, jobs |-> j]

TypeOK ==
  /\ CallsTypeOK
  /\ inc \in {"PENDING", "COLLECTION_IN_PROGRESS", "COLLECTION_COMPLETE", "COLLECTION_FAILED", "CLOSED"}
  /\ job \in [Job -> Terminal \cup {"none", "pending", "active"}] /\ running \subseteq Job
  /\ base \in Nat /\ log \in 0..MaxLogs /\ cursor \in 0..MaxLogs
  /\ starts \in Nat /\ handling \in Nat /\ overlapped \in BOOLEAN
  /\ fits \in BOOLEAN /\ mounted \in BOOLEAN /\ events \in 0..MaxEvents
  /\ exec \in [started : BOOLEAN, complete : BOOLEAN, polling : BOOLEAN, timer : BOOLEAN,
               abort : {"no", "jobs", "cancels"},
               error : {"none", "start", "failed", "aborted", "abort"}, shown : Seq(Nat)]

\* Mounting asks for the incident, unless a viewer only looks.
Mount(n) == mounted' = TRUE /\ exec' = ExecInit
            /\ net' = IF IsViewer THEN n ELSE With(n, "current", Nothing, TRUE)

Init ==
  /\ faults = 0 /\ events = 0 /\ fits \in BOOLEAN
  /\ inc = "PENDING" /\ job = [d \in Job |-> "none"] /\ running = {}
  /\ base = 0 /\ log = 0 /\ cursor = 0 /\ starts = 0 /\ handling = 0 /\ overlapped = FALSE
  /\ mounted = TRUE /\ exec = ExecInit
  /\ LET n == [c \in Slot |-> NoCall] IN net = IF IsViewer THEN n ELSE With(n, "current", Nothing, TRUE)

-----------------------------------------------------------------------------
(* Arriving and leaving.                                                   *)

Counted  == events < MaxEvents /\ events' = events + 1
Visiting == Counted /\ UNCHANGED <<backend, fits, faults>>

Leave  == mounted /\ Visiting /\ mounted' = FALSE /\ exec' = ExecInit /\ net' = Orphaned(net)
Return == ~mounted /\ Room(1) /\ Visiting /\ Mount(net)
Reload == mounted /\ Visiting /\ Mount([c \in Slot |-> NoCall])

\* State written after an await reaches the page only while it is mounted.
Runs(c, new, n) == /\ exec' = IF net[c].live THEN new ELSE exec
                   /\ net' = n
                   /\ UNCHANGED <<backend, fits, mounted, events, faults>>
Ends(c, new)    == Runs(c, new, Without(net, c))
Here(new, n)    == /\ mounted /\ exec' = new /\ net' = n
                   /\ UNCHANGED <<backend, fits, mounted, events, faults>>

-----------------------------------------------------------------------------
(* Joining or starting the collection.                                     *)

ServeCurrent(c) == Asked(c, "current") /\ Serve(c, TRUE, Result(inc, <<>>, {})) /\ UNCHANGED <<backend, client, faults>>

\* A running or complete collection is joined; in any other case, an
\* unreadable incident included, it is started, even after the page was left.
Joins(c) == Resolved(c, "current") /\ net[c].res.status \in {"COLLECTION_IN_PROGRESS", "COLLECTION_COMPLETE"}
JoinCollection(c) ==
  LET busy == net[c].res.status = "COLLECTION_IN_PROGRESS" IN
  /\ Joins(c)
  /\ Ends(c, [exec EXCEPT !.started = TRUE, !.polling = busy, !.timer = busy, !.complete = ~busy])
StartCollection(c) ==
  /\ Resolved(c, "current") \/ Rejected(c, "current")
  /\ ~Joins(c)
  /\ Runs(c, exec, With(Without(net, c), "start", Nothing, net[c].live))

\* start_collection_endpoint reads the status long before it writes anything.
\* What is not PENDING is answered at once, and so is a module that is not one
\* of the operating system's.
CanStart == inc = "PENDING" /\ fits
AnswerStart(c) ==
  /\ Asked(c, "start") /\ net[c].res = Nothing /\ ~CanStart
  /\ Serve(c, inc = "COLLECTION_IN_PROGRESS", Nothing)
  /\ UNCHANGED <<backend, client, faults>>

\* Mutant: a collection that is running is started over.
ReadRunning(c) ==
  /\ Asked(c, "start") /\ net[c].res = Nothing /\ fits /\ inc \in {"PENDING", "COLLECTION_IN_PROGRESS"}
  /\ net' = [net EXCEPT ![c].res = Handled]
  /\ handling' = handling + 1 /\ overlapped' = (overlapped \/ handling > 0)
  /\ UNCHANGED <<inc, job, running, lines, starts, client, faults>>

ReadStart(c) ==
  /\ Asked(c, "start") /\ net[c].res = Nothing /\ CanStart
  /\ net' = [net EXCEPT ![c].res = Handled]
  /\ handling' = handling + 1 /\ overlapped' = (overlapped \/ handling > 0)
  /\ UNCHANGED <<inc, job, running, lines, starts, client, faults>>

\* What a start does, in one transaction, whatever the incident has become:
\* the update waits for the row, not for another look at it.  A last_log_index
\* read as 0 is not written.
Begin == /\ inc' = "COLLECTION_IN_PROGRESS" /\ starts' = starts + 1
         /\ base' = base + log /\ log' = 1
         /\ job' = [d \in Job |-> IF d \in Device /\ job[d] = "none" THEN "pending" ELSE job[d]]
         /\ UNCHANGED <<running, cursor>>

HandlerEnds == handling > 0 /\ handling' = handling - 1 /\ UNCHANGED <<overlapped, client>>
HandledHere(c) == Asked(c, "start") /\ net[c].res = Handled
FinishStart(c) == HandledHere(c) /\ HandlerEnds /\ Begin /\ Serve(c, TRUE, Nothing) /\ UNCHANGED faults

\* The handler of a request that was given up commits too, or fails.
LateStart ==
  /\ handling > Cardinality({c \in Slot : HandledHere(c)})
  /\ HandlerEnds /\ UNCHANGED <<net, faults>>
  /\ Begin \/ UNCHANGED <<inc, job, running, lines, starts>>

Started(c) ==
  /\ Resolved(c, "start")
  /\ Ends(c, [exec EXCEPT !.started = TRUE, !.polling = TRUE, !.timer = TRUE])
StartFails(c) == Rejected(c, "start") /\ Ends(c, [exec EXCEPT !.error = "start"])

-----------------------------------------------------------------------------
(* useAdaptivePolling and handlePoll.                                      *)

\* The timer fires.  It is set again when the poll has ended, unless polling
\* was switched off meanwhile.
Poll == exec.timer /\ Room(1) /\ Here([exec EXCEPT !.timer = FALSE], With(net, "poll", Nothing, TRUE))

\* The lines after sequence number n.
After(n) == [i \in 1..(log - n) |-> base + n + i]
AnswerPoll(c, n) ==
  /\ Asked(c, "poll") /\ Serve(c, TRUE, Result(inc, After(n), {}))
  /\ UNCHANGED <<inc, job, running, base, log, start, client, faults>>

\* Mutant: every poll is answered with the whole log.
ServePollAll(c) == AnswerPoll(c, 0) /\ cursor' = (IF log > cursor THEN log ELSE cursor)

\* Mutant: last_log_index becomes the sequence number expected next.
ServePollSkips(c) == AnswerPoll(c, cursor) /\ cursor' = (IF log > cursor THEN log + 1 ELSE cursor)

\* poll_collection_endpoint: the lines after last_log_index, which moves on if
\* there are any.
ServePoll(c) == AnswerPoll(c, cursor) /\ cursor' = (IF log > cursor THEN log ELSE cursor)

\* Mutant: the page does not look for COLLECTION_FAILED.
PollAnsweredNoFailure(c) ==
  LET done == net[c].res.status = "COLLECTION_COMPLETE"
      on   == exec.polling /\ ~done
  IN
  /\ Resolved(c, "poll")
  /\ Ends(c, [exec EXCEPT !.shown = @ \o net[c].res.lines, !.complete = @ \/ done,
                !.polling = on, !.timer = on])

PollAnswered(c) ==
  LET done == net[c].res.status = "COLLECTION_COMPLETE"
      bad  == net[c].res.status = "COLLECTION_FAILED"
      on   == exec.polling /\ ~done /\ ~bad
  IN
  /\ Resolved(c, "poll")
  /\ Ends(c, [exec EXCEPT !.shown = @ \o net[c].res.lines, !.complete = @ \/ done,
                !.error = IF bad THEN "failed" ELSE @, !.polling = on, !.timer = on])

PollFails(c) == Rejected(c, "poll") /\ Ends(c, [exec EXCEPT !.timer = exec.polling])

-----------------------------------------------------------------------------
(* handleAbort.                                                            *)

AbortEnabled == mounted /\ ~IsViewer /\ ~exec.complete /\ exec.abort = "no"
handleAbort ==
  /\ AbortEnabled /\ Room(1) /\ Counted
  /\ exec' = [exec EXCEPT !.abort = "jobs"] /\ net' = With(net, "jobs", Nothing, TRUE)
  /\ UNCHANGED <<backend, fits, mounted, faults>>

ServeJobs(c) ==
  /\ Asked(c, "jobs") /\ Serve(c, TRUE, Result(inc, <<>>, {d \in Job : job[d] # "none"}))
  /\ UNCHANGED <<backend, client, faults>>

\* One cancel per job, whatever its status, all at once.
SendCancels(c) ==
  LET ds    == net[c].res.jobs
      slots == FreeIn(Without(net, c))
      at    == CHOOSE f \in [ds -> slots] : \A d, e \in ds : f[d] = f[e] => d = e
  IN
  /\ Resolved(c, "jobs") /\ Cardinality(ds) <= Cardinality(slots)
  /\ Runs(c, [exec EXCEPT !.abort = "cancels"],
          [s \in Slot |-> IF \E d \in ds : at[d] = s
                          THEN NewCall("cancel", CHOOSE d \in ds : at[d] = s, net[c].live)
                          ELSE Without(net, c)[s]])
AbortFails(c) == Rejected(c, "jobs") /\ Ends(c, [exec EXCEPT !.abort = "no", !.error = "abort"])

ServeCancel(c) ==
  /\ Asked(c, "cancel") /\ Serve(c, TRUE, Nothing)
  /\ job' = [job EXCEPT ![net[c].arg] = "failed"]
  /\ UNCHANGED <<inc, running, lines, start, client, faults>>

\* Promise.allSettled: a cancel that failed is not told from one that did not.
CancelSettled(c) == (Resolved(c, "cancel") \/ Rejected(c, "cancel")) /\ Ends(c, exec)

Aborted ==
  /\ exec.abort = "cancels" /\ ~Pending("cancel")
  /\ Here([exec EXCEPT !.abort = "no", !.error = "aborted", !.polling = FALSE, !.timer = FALSE], net)

-----------------------------------------------------------------------------
(* The agents, the scheduler, and other clients that retry or close.       *)

Written == IF log < MaxLogs THEN log + 1 ELSE log
Jobs    == {d \in Job : job[d] # "none"}
Synced(j) == IF inc = "CLOSED" THEN inc
             ELSE IF \E d \in Jobs : j[d] \in {"pending", "active"} THEN "COLLECTION_IN_PROGRESS"
             ELSE IF \A d \in Jobs : j[d] = "done" THEN "COLLECTION_COMPLETE"
             ELSE "COLLECTION_FAILED"
TakenUp   == IF inc = "CLOSED" THEN inc ELSE "COLLECTION_IN_PROGRESS"
Elsewhere == UNCHANGED <<base, cursor, start, client, net, faults>>
OtherClient == Counted /\ UNCHANGED <<base, cursor, start, fits, mounted, exec, net, faults>>

Claim(d) ==
  /\ job[d] = "pending" /\ d \notin running
  /\ job' = [job EXCEPT ![d] = "active"] /\ running' = running \cup {d}
  /\ Elsewhere /\ UNCHANGED <<inc, log>>

\* An agent reports its progress, to a cancelled job or an ended collection too.
Progress(d) ==
  /\ d \in running
  /\ job' = [job EXCEPT ![d] = "active"] /\ inc' = TakenUp /\ log' = Written
  /\ Elsewhere /\ UNCHANGED running

\* An agent reports its result, or that it noticed the cancellation.
JobEnds(d, r) ==
  /\ d \in running /\ running' = running \ {d}
  /\ job' = [job EXCEPT ![d] = r] /\ log' = Written
  /\ inc' = Synced(job')
  /\ Elsewhere

\* A due schedule adds a job of its own.
Schedule(d) ==
  /\ d \in Scheduled /\ job[d] = "none" /\ inc # "CLOSED"
  /\ job' = [job EXCEPT ![d] = "pending"] /\ inc' = TakenUp
  /\ OtherClient /\ UNCHANGED <<running, log>>

\* retry_failed_jobs_endpoint, called by another client.
Retry ==
  LET reset == {d \in Job : job[d] = "failed"} IN
  /\ inc # "CLOSED" /\ reset # {}
  /\ job' = [d \in Job |-> IF d \in reset THEN "pending" ELSE job[d]] /\ inc' = TakenUp
  /\ OtherClient /\ UNCHANGED <<running, log>>

\* The gate refuses only while a job is pending.
Close ==
  /\ inc # "CLOSED" /\ \A d \in Job : job[d] # "pending"
  /\ inc' = "CLOSED"
  /\ OtherClient /\ UNCHANGED <<job, running, log>>

\* An answer of 500; what the handler had written is rolled back.
ServeError(c) ==
  /\ net[c].st = "sent" /\ faults < MaxFaults /\ faults' = faults + 1
  /\ Serve(c, FALSE, Nothing)
  /\ IF HandledHere(c) THEN HandlerEnds /\ UNCHANGED <<inc, job, running, lines, starts>>
                       ELSE UNCHANGED <<backend, client>>

-----------------------------------------------------------------------------
Served(c) == \/ ServeCurrent(c) \/ AnswerStart(c) \/ ReadStart(c) \/ FinishStart(c) \/ ServePoll(c) \/ ServeJobs(c) \/ ServeCancel(c)
Continued(c) ==
  \/ JoinCollection(c) \/ StartCollection(c) \/ Started(c) \/ StartFails(c)
  \/ PollAnswered(c) \/ PollFails(c) \/ SendCancels(c) \/ AbortFails(c) \/ CancelSettled(c)
Retries(c) == Again(c) /\ UNCHANGED <<backend, client>>
Breaks(c)  == (Lose(c) \/ TimeOut(c)) /\ UNCHANGED <<backend, client>>
Agents == \E d \in Job : Claim(d) \/ Progress(d) \/ Schedule(d) \/ \E r \in Terminal : JobEnds(d, r)

Next ==
  \/ Leave \/ Return \/ Reload \/ Poll \/ handleAbort \/ Aborted \/ LateStart \/ Agents \/ Retry \/ Close
  \/ \E c \in Slot : Served(c) \/ Continued(c) \/ Retries(c) \/ Breaks(c) \/ ServeError(c)

Spec == Init /\ [][Next]_vars

\* The server answers, continuations run and timers fire.
Fairness ==
  /\ \A c \in Slot : WF_vars(Served(c) \/ Continued(c) \/ Retries(c))
  /\ WF_vars(Poll) /\ WF_vars(Aborted)
FairSpec == Spec /\ Fairness

-----------------------------------------------------------------------------
(* Properties.                                                             *)

\* A collection is started (its log emptied, its custody entry written) a second
\* time only by requests that were handled at once: however often the page is
\* reloaded, left and opened and its request sent again, a start that is read
\* after another was committed or given up joins it or is refused
\* (start_collection_endpoint; its comment at incidents.py 179-181 promises this
\* without the exception, which the code makes by reading the status unlocked).
StartedOnce == starts <= 1 \/ overlapped

\* The log on the page has no line twice and none before an earlier one.
LogsInOrder == \A i \in 1..(Len(exec.shown) - 1) : exec.shown[i] < exec.shown[i + 1]

\* A page that watches a collection that has ended shows it, unless it is left,
\* aborted, the incident is closed or the collection is taken up again first, by
\* a retry, a schedule or a late report (CollectionExecution.tsx 237-260).
EndIsShown ==
  (exec.polling /\ inc \in {"COLLECTION_COMPLETE", "COLLECTION_FAILED"})
    ~> (exec.complete \/ exec.error \in {"failed", "aborted"} \/ ~exec.started
        \/ inc \in {"CLOSED", "COLLECTION_IN_PROGRESS"})
=============================================================================
