----------------------------- MODULE TimelinePage -----------------------------
(***************************************************************************)
(* The SuperTimeline page: the state of the build (polled while one runs), *)
(* the rows of the timeline, asked for by build, filter and page number,   *)
(* and the annotations that all analysts share (the query q of the frame). *)
(***************************************************************************)
EXTENDS PageFrame

OnTimeline == OnPage("timeline")
MaxBuild   == MaxEvents + 1
RowKeys    == [build : 1..MaxBuild, flt : {"all", "host"}, no : 1..2]

\* told, build: the status last read and the build its completed_at names;
\* rows: for each key the build its rows came from, 0 without an answer;
\* posting, exporting, saving: the buttons; importing: those of this browser
\* are sent.  acked: the version at which the last annotation was saved.
TimelineF == [told |-> "unknown", build |-> 1, flt |-> "all", no |-> 1, rows |-> [k \in RowKeys |-> 0],
              posting |-> FALSE, exporting |-> FALSE, saving |-> FALSE, importing |-> FALSE,
              acked |-> 0, moves |-> 0]
isDone == f.told = "DONE"

TimelineKey(g) == [build |-> g.build, flt |-> g.flt, no |-> g.no]

TimelineTypeOK ==
  /\ db.rows \in [Row -> Value] /\ db.st \in {"none", "BUILDING", "DONE", "FAILED"} /\ db.build \in 0..MaxBuild
  /\ f.told \in {"unknown", "error", "none", "BUILDING", "DONE", "FAILED"} /\ f.build \in 1..MaxBuild
  /\ f.flt \in {"all", "host"} /\ f.no \in 1..2 /\ f.moves \in 0..MaxMoves
  /\ {f.posting, f.exporting, f.saving, f.importing} \subseteq BOOLEAN
  /\ f.acked \in 0..db.ver /\ f.rows \in [RowKeys -> 0..MaxBuild]

TimelineInit ==
  /\ page = "timeline" /\ f = TimelineF
  /\ \E s \in {"none", "DONE"} : db = [ver |-> 0, rows |-> [r \in Row |-> "none"], st |-> s, build |-> IF s = "DONE" THEN 1 ELSE 0]
  /\ net = With(Fetch([c \in Slot |-> NoCall], "page"), "tlstatus", Nothing, TRUE)

-----------------------------------------------------------------------------
(* Status and rows.                                                        *)

IsAsked(k, kind) == \E c \in Slot : net[c].st # "idle" /\ net[c].live /\ net[c].kind = kind /\ net[c].arg = k
\* The rows of a key that comes on the screen without an answer.
Needs(g)   == g.told = "DONE" /\ g.rows[TimelineKey(g)] = 0 /\ ~IsAsked(TimelineKey(g), "tlrows")
Asks(n, g) == IF Needs(g) THEN With(n, "tlrows", TimelineKey(g), TRUE) ELSE n

ServeTlStatus(c) ==
  /\ Asked(c, "tlstatus") /\ Serve(c, db.st # "none", [st |-> db.st, build |-> db.build])
  /\ UNCHANGED <<page, mounted, f, q, db, used, faults>>
TlStatusArrives(c) ==
  /\ Resolved(c, "tlstatus")
  /\ LET g == [f EXCEPT !.told = net[c].res.st, !.build = IF net[c].res.st = "DONE" THEN net[c].res.build ELSE @] IN
     Then(c, g, IF net[c].live THEN Asks(Without(net, c), g) ELSE Without(net, c))
\* 404, no timeline yet, is told apart from other errors; what was read
\* before stays.  (The query's own second attempt, after the second of the
\* request, is left out here and for the rows.)
TlStatusFails(c) ==
  /\ Rejected(c, "tlstatus")
  /\ Then(c, [f EXCEPT !.told = IF @ # "unknown" THEN @ ELSE IF net[c].res = Nothing THEN "error" ELSE "none"], Without(net, c))
StatusTick == /\ OnTimeline /\ f.told = "BUILDING" /\ ~Pending("tlstatus") /\ Room(1)
              /\ net' = With(net, "tlstatus", Nothing, TRUE)
              /\ UNCHANGED <<page, mounted, f, q, db, used, faults>>

\* Only a finished timeline is read.
ServeTlRows(c) ==
  /\ Asked(c, "tlrows") /\ Serve(c, db.st = "DONE", db.build)
  /\ UNCHANGED <<page, mounted, f, q, db, used, faults>>
TlRowsArrive(c) == Resolved(c, "tlrows") /\ Then(c, [f EXCEPT !.rows[net[c].arg] = net[c].res], Without(net, c))
TlRowsFail(c)   == Rejected(c, "tlrows") /\ Then(c, f, Without(net, c))

\* Builds of this page, of other analysts and of the pipeline.
BuildEnds == /\ page = "timeline" /\ db.st = "BUILDING"
             /\ \/ db' = [db EXCEPT !.st = "DONE", !.build = @ + 1]
                \/ db' = [db EXCEPT !.st = "FAILED"]
             /\ UNCHANGED <<page, mounted, f, q, used, net, faults>>

BuildShown   == OnTimeline /\ f.told \notin {"unknown", "error", "BUILDING"}
triggerBuild == BuildShown /\ ~f.posting /\ Calls([f EXCEPT !.posting = TRUE], "build", Nothing)
\* A build under way is joined.
ServeBuild(c) ==
  /\ Asked(c, "build") /\ db.build < MaxBuild
  /\ Serve(c, TRUE, Nothing) /\ db' = [db EXCEPT !.st = "BUILDING"]
  /\ UNCHANGED <<page, mounted, f, q, used, faults>>
\* No evidence was processed (409), too many requests (429), or no broker
\* (503), which the record shows.
RefuseBuild(c) ==
  /\ Asked(c, "build") /\ Serve(c, FALSE, Nothing)
  /\ UNCHANGED db \/ (db.st # "BUILDING" /\ db' = [db EXCEPT !.st = "FAILED"])
  /\ UNCHANGED <<page, mounted, f, q, used, faults>>
\* The status is invalidated: a fetch in flight is replaced once there is
\* one that was answered.
AskStatusAgain(n) == IF Pending("tlstatus") /\ f.told = "unknown" THEN n
                ELSE With([c \in Slot |-> IF n[c].kind = "tlstatus" THEN NoCall ELSE n[c]], "tlstatus", Nothing, TRUE)
BuildBegun(c) == /\ Resolved(c, "build")
                 /\ Then(c, [f EXCEPT !.posting = FALSE], IF net[c].live THEN AskStatusAgain(Without(net, c)) ELSE Without(net, c))
BuildRefused(c) == Rejected(c, "build") /\ Then(c, [f EXCEPT !.posting = FALSE], Without(net, c))

-----------------------------------------------------------------------------
(* Filters, page numbers and export.                                       *)

Turns(g) == /\ OnTimeline /\ isDone /\ f.moves + used < MaxMoves /\ g # f /\ (Needs(g) => Room(1))
            /\ f' = [g EXCEPT !.moves = @ + 1] /\ net' = Asks(net, g)
            /\ UNCHANGED <<page, mounted, q, db, used, faults>>
\* Hosts, sources, quick filters, the chart and the order go to page 1; the
\* search field and the dates stay on the page.
toggleHost  == OnTimeline /\ Turns([f EXCEPT !.flt = IF @ = "all" THEN "host" ELSE "all", !.no = 1])
searchRows  == OnTimeline /\ Turns([f EXCEPT !.flt = "host"])
clearAll    == OnTimeline /\ f.flt # "all" /\ Turns([f EXCEPT !.flt = "all", !.no = 1])
RowsLoading == f.rows[TimelineKey(f)] = 0
turnPage    == OnTimeline /\ ~RowsLoading /\ Turns([f EXCEPT !.no = IF @ = 1 THEN 2 ELSE 1])

handleExport == /\ OnTimeline /\ isDone /\ ~f.exporting /\ ~RowsLoading /\ Event /\ Room(1)
                /\ f' = [f EXCEPT !.exporting = TRUE]
                /\ net' = [net EXCEPT ![Least(FreeIn(net))] = [NewCall("export", Nothing, TRUE) EXCEPT !.try = MAX_RETRIES]]
                /\ UNCHANGED <<page, mounted, q, db, faults>>
ServeExport(c) == /\ Asked(c, "export") /\ Serve(c, db.st = "DONE", Nothing)
                  /\ UNCHANGED <<page, mounted, f, q, db, used, faults>>
ExportEnds(c)  == (Resolved(c, "export") \/ Rejected(c, "export")) /\ Then(c, [f EXCEPT !.exporting = FALSE], Without(net, c))

-----------------------------------------------------------------------------
(* Annotations: PATCH, then the query is invalidated.                      *)

NotesArrive(c) == /\ page = "timeline" /\ Resolved(c, "list")
                  /\ q' = Arrived(c) /\ net' = Without(net, c)
                  /\ UNCHANGED <<page, mounted, f, db, used, faults>>
NotesFail(c)   == /\ page = "timeline" /\ LastFetch(c)
                  /\ q' = [q EXCEPT !.err = TRUE] /\ net' = Without(net, c)
                  /\ UNCHANGED <<page, mounted, f, db, used, faults>>
NotesKnown == OnTimeline /\ isDone /\ q.have /\ ~q.err
\* rest: what an import has to send after this one.
Note(r, v, rest) == [row |-> r, val |-> v, rest |-> rest]
Marks(r)   == IF q.rows[r] = "on" THEN "off" ELSE "on"
\* From the panel of an event, whose button waits; and from the list.
toggleBookmark(r)   == NotesKnown /\ ~f.saving /\ Calls([f EXCEPT !.saving = TRUE], "note", Note(r, Marks(r), {}))
onRemoveBookmark(r) == NotesKnown /\ q.rows[r] = "on" /\ Calls(f, "unnote", Note(r, "off", {}))
ServeNote(c) ==
  /\ Asked(c, "note") \/ Asked(c, "unnote") \/ Asked(c, "send")
  /\ Serve(c, TRUE, db.ver + 1)
  /\ db' = [db EXCEPT !.ver = @ + 1, !.rows[net[c].arg.row] = net[c].arg.val]
  /\ UNCHANGED <<page, mounted, f, q, used, faults>>
Notes(c, new) == /\ f' = IF net[c].live THEN new ELSE f
                 /\ q' = Marked /\ net' = Invalidate(Without(net, c))
                 /\ UNCHANGED <<page, mounted, db, used, faults>>
Acked(c) == IF f.acked < net[c].res THEN net[c].res ELSE f.acked

\* Mutant: saveAnnotation does not invalidate the annotations.
NoteSavedKeepsQuery(c) ==
  /\ Resolved(c, "note") \/ Resolved(c, "unnote")
  /\ Then(c, [f EXCEPT !.acked = Acked(c)], Without(net, c))

NoteSaved(c) ==
  /\ Resolved(c, "note") \/ Resolved(c, "unnote")
  /\ Notes(c, [f EXCEPT !.acked = Acked(c), !.saving = IF net[c].kind = "note" THEN FALSE ELSE @])
NoteFails(c) ==
  /\ Rejected(c, "note") \/ Rejected(c, "unnote")
  /\ Then(c, [f EXCEPT !.saving = IF net[c].kind = "note" THEN FALSE ELSE @], Without(net, c))

\* The annotations of this browser that the shared ones lack, one at a time;
\* the first failure ends the import, leaving the page does not.  (A bound: one
\* import at a time of a page.)
importBrowserAnnotations ==
  LET new == Row \ Rows(q.rows) r == CHOOSE x \in new : TRUE IN
  /\ NotesKnown /\ ~f.importing /\ new # {}
  /\ Calls([f EXCEPT !.importing = TRUE], "send", Note(r, "on", new \ {r}))
ImportNext(c) ==
  LET rest == net[c].arg.rest r == CHOOSE x \in rest : TRUE IN
  /\ Resolved(c, "send") /\ rest # {}
  /\ Then(c, [f EXCEPT !.acked = Acked(c)],
          With(Without(net, c), "send", Note(r, "on", rest \ {r}), net[c].live))
ImportEnds(c) ==
  /\ Resolved(c, "send") /\ net[c].arg.rest = {}
  /\ Notes(c, [f EXCEPT !.importing = FALSE, !.acked = Acked(c)])
ImportBreaks(c) == Rejected(c, "send") /\ Notes(c, [f EXCEPT !.importing = FALSE])

Colleague(r) ==
  /\ page = "timeline" /\ Event /\ db.rows[r] # "on"
  /\ db' = [db EXCEPT !.ver = @ + 1, !.rows[r] = "on"]
  /\ UNCHANGED <<page, mounted, f, q, net, faults>>

TimelineLeave  == page = "timeline" /\ Leaves([TimelineF EXCEPT !.moves = f.moves])
TimelineReturn == /\ page = "timeline" /\ ~mounted /\ mounted' = TRUE /\ Room(2)
                  /\ net' = IF ListFlying THEN With(net, "tlstatus", Nothing, TRUE)
                            ELSE With(Fetch(net, "page"), "tlstatus", Nothing, TRUE)
                  /\ UNCHANGED <<page, f, q, db, used, faults>>

TimelineUser ==
  \/ StatusTick \/ BuildEnds \/ triggerBuild \/ toggleHost \/ searchRows \/ clearAll \/ turnPage \/ handleExport
  \/ importBrowserAnnotations \/ TimelineLeave \/ TimelineReturn
  \/ \E r \in Row : toggleBookmark(r) \/ onRemoveBookmark(r) \/ Colleague(r)
TimelineServed(c) == ServeTlStatus(c) \/ ServeTlRows(c) \/ ServeBuild(c) \/ RefuseBuild(c) \/ ServeExport(c) \/ ServeNote(c)
TimelineContinued(c) ==
  \/ TlStatusArrives(c) \/ TlStatusFails(c) \/ TlRowsArrive(c) \/ TlRowsFail(c) \/ BuildBegun(c) \/ BuildRefused(c)
  \/ ExportEnds(c) \/ NotesArrive(c) \/ NotesFail(c) \/ NoteSaved(c) \/ NoteFails(c)
  \/ ImportNext(c) \/ ImportEnds(c) \/ ImportBreaks(c)

-----------------------------------------------------------------------------
(* Properties.                                                             *)

\* The rows on the screen are never older than the build whose totals and
\* time the page names, although rows of earlier builds are cached and still
\* arrive.
RowsOfBuild == OnTimeline /\ isDone /\ ~RowsLoading => f.rows[TimelineKey(f)] >= f.build

\* An annotation that was reported saved is among those shown as soon as no
\* fetch of them is under way, however many are sent in a row.
NotesShown == OnTimeline /\ ~ListFlying /\ ~q.err /\ ~f.importing => q.ver >= f.acked
=============================================================================
