---------------------------- MODULE MCWebConsole ----------------------------
(***************************************************************************)
(* The pages an analyst works with on an incident, each on its own: an     *)
(* initial state per page, with the analyst, the server, the pipeline      *)
(* behind it and the other analysts as the actors.                         *)
(***************************************************************************)
EXTENDS ProcessingPages, SearchPages, TimelinePage, LiveConsole

MCSlot  == 1..2
MCReads == {"tlrows", "tlstatus"}

\* A run of the pipeline that is already under way has one event less (a
\* bound).
IncidentInit ==
  /\ FrameInit
  /\ \/ q = NoData /\ JobInit /\ used = IF Running(db.rows.proc) THEN 1 ELSE 0
     \/ q = NoData /\ (TimelineInit \/ ConsoleInit) /\ used = 0
     \/ SearchInit /\ used = 0

IncidentNext ==
  \/ JobUser \/ SearchUser \/ TimelineUser \/ ConsoleUser
  \/ \E s \in Sock : ConsoleSocket(s)
  \/ \E c \in Slot :
       \/ ServeList(c) \/ JobServed(c) \/ SearchServed(c) \/ TimelineServed(c)
       \/ JobContinued(c) \/ SearchContinued(c) \/ TimelineContinued(c)
       \/ FetchAgain(c) \/ Retries(c) \/ Breaks(c) \/ Unserved(c) \/ Outage(c)

IncidentSpec == IncidentInit /\ [][IncidentNext]_frame

\* Every page's state has the type its component declares, and no cache entry
\* is newer than what the server has.
TypeOK ==
  /\ FrameTypeOK
  /\ page \in JobPages   => JobTypeOK
  /\ page \in SearchPage => SearchTypeOK
  /\ page = "timeline"   => TimelineTypeOK
  /\ page = "console"    => ConsoleTypeOK

\* What a query shows is never replaced by something older, although pollers,
\* invalidations, refresh buttons and retries fetch it side by side (useQuery
\* with cancelRefetch, useAdaptivePolling).
NeverOlder ==
  [][/\ q'.ver >= q.ver
     /\ page \in SearchPage => \A k \in ShownKeys : q'.rows[k].ver >= q.rows[k].ver]_frame

\* The rows on the screen are those of the filter, the text and the build that
\* the page names beside them, in whatever order answers arrive (the query
\* keys of the search pages and of SuperTimeline).
RowsAsNamed == RowsFitFilter /\ RowsOfBuild

\* A poller, a disabled button and a blocked dialog have the request in flight
\* that ends them (useAdaptivePolling, the finally blocks of the pages).
NothingStuck == PollersAlive /\ ImportHasCall
=============================================================================
