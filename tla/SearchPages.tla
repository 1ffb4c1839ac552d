------------------------------ MODULE SearchPages ------------------------------
(***************************************************************************)
(* The pages that ask the server for one page of the rows that fit a       *)
(* filter: Dashboard, AuditLog, IOCMatches, SigmaHits and YaraMatches.     *)
(* The filter and the page number are the key of the query: every key has  *)
(* its own entry in the cache and its own fetch, and the page shows the    *)
(* entry of the key it has now.  The dashboard also closes the incidents   *)
(* that were selected, under whatever filter, all at once.                 *)
(***************************************************************************)
EXTENDS PageFrame

SearchPage == {"dashboard", "audit", "iocs", "sigma", "yara"}
ShownKeys  == [search : {"", "self"}, flt : {"all", "on"}, no : 1..2]
NoEntry    == [have |-> FALSE, ver |-> 0, items |-> <<>>, total |-> 0, inv |-> FALSE]

FirstKey   == [search |-> "", flt |-> "all", no |-> 1]

\* text: what is typed, and search: what useDebounce has passed on; sel:
\* selectedIds; open: the import dialog, with or without a result; busy:
\* isImporting, at last for the reload of the key wait; closed: the
\* incidents the last CLOSE_ALL reported closed, by clearing the selection.
SearchF == [text |-> "", search |-> "", flt |-> "all", no |-> 1, sel |-> {}, open |-> "no", busy |-> "no", wait |-> FirstKey,
            closed |-> {}, moves |-> 0]

\* Mutant: the status filter is not part of the query key.
KeyWithoutFilter(g) == [search |-> g.search, flt |-> "all", no |-> g.no]

Key(g) == [search |-> g.search, flt |-> g.flt, no |-> g.no]

OnSearch == page \in SearchPage /\ mounted
entry == q.rows[Key(f)]

SearchTypeOK ==
  /\ db.rows \in [Row -> Value] /\ db.ver \in 0..MaxVersion
  /\ f \in [text : {"", "self"}, search : {"", "self"}, flt : {"all", "on"}, no : 1..2, sel : SUBSET Row,
            open : {"no", "ask", "told"}, busy : {"no", "post", "reload"}, wait : ShownKeys, closed : SUBSET Row, moves : 0..MaxMoves]
  /\ DOMAIN q.rows = ShownKeys
  /\ \A k \in ShownKeys : DOMAIN q.rows[k] = DOMAIN NoEntry /\ q.rows[k].ver <= db.ver

-----------------------------------------------------------------------------
(* The query of each key.                                                  *)

IsFetch(call, k) == call.st # "idle" /\ call.kind = "rows" /\ call.arg.key = k
Fetching(k)      == \E c \in Slot : IsFetch(net[c], k)
AskRows(n, k)    == With(n, "rows", [key |-> k, val |-> "first"], TRUE)
Unasked(n, k)    == [c \in Slot |-> IF IsFetch(n[c], k) THEN NoCall ELSE n[c]]

\* The rows of a table that a key asks for, newest first, one to a page (a
\* bound: two rows make two pages).
Found(k, rows) == {r \in Rows(rows) : (k.flt = "all" \/ rows[r] = k.flt) /\ (k.search = "" \/ r = Self)}
PageOf(k, rows) ==
  LET all == Found(k, rows) first == IF Self \in all THEN {Self} ELSE all IN
  IF k.no = 1 THEN first ELSE all \ first
ServeRows(c) ==
  LET k == net[c].arg.key IN
  /\ Asked(c, "rows")
  /\ Serve(c, TRUE, [NoEntry EXCEPT !.have = TRUE, !.ver = db.ver, !.total = Cardinality(Found(k, db.rows)),
                       !.items = [r \in PageOf(k, db.rows) |-> db.rows[r]]])
  /\ UNCHANGED <<page, mounted, f, q, db, used, faults>>

RowsReloaded(c) == IF f.busy = "reload" /\ f.wait = net[c].arg.key THEN [f EXCEPT !.busy = "no", !.wait = FirstKey] ELSE f
RowsArrive(c) ==
  /\ Resolved(c, "rows")
  /\ q' = [q EXCEPT !.rows[net[c].arg.key] = net[c].res] /\ net' = Without(net, c) /\ f' = RowsReloaded(c)
  /\ UNCHANGED <<page, mounted, db, used, faults>>
\* IOCMatches and YaraMatches do not ask again.
RowsAgain(c) ==
  /\ Rejected(c, "rows") /\ net[c].arg.val = "first" /\ page \notin {"iocs", "yara"}
  /\ net' = [net EXCEPT ![c] = NewCall("rows", [net[c].arg EXCEPT !.val = "again"], net[c].live)]
  /\ UNCHANGED <<page, mounted, f, q, db, used, faults>>
RowsFail(c) ==
  /\ Rejected(c, "rows") /\ (net[c].arg.val = "again" \/ page \in {"iocs", "yara"})
  /\ net' = Without(net, c) /\ f' = RowsReloaded(c) /\ UNCHANGED <<page, mounted, q, db, used, faults>>

\* A key comes on the screen: its entry is shown, and fetched when it is
\* stale, which after staleTime every entry is.
Shows(n, k) ==
  \/ ~Fetching(k) /\ FreeIn(n) # {} /\ net' = AskRows(n, k)
  \/ (Fetching(k) \/ (q.rows[k].have /\ ~q.rows[k].inv)) /\ net' = n

\* invalidateQueries on the common prefix of the keys: every entry is marked,
\* the one on the screen is fetched in place of a fetch in flight; its first
\* fetch is waited for.
InvalidateRows(n) ==
  IF ~mounted \/ (~entry.have /\ Fetching(Key(f))) THEN n ELSE AskRows(Unasked(n, Key(f)), Key(f))
MarkRows == [q EXCEPT !.rows = [k \in ShownKeys |-> [q.rows[k] EXCEPT !.inv = @ \/ q.rows[k].have]]]

-----------------------------------------------------------------------------
(* Filters and page numbers.                                               *)

Loading == ~entry.have /\ Fetching(Key(f))
MovesTo(g) ==
  /\ OnSearch /\ f.moves + used < MaxMoves /\ g # f
  /\ f' = [g EXCEPT !.moves = @ + 1]
  /\ IF Key(g) = Key(f) THEN UNCHANGED net ELSE Shows(net, Key(g))
  /\ UNCHANGED <<page, mounted, q, db, used, faults>>
Flt(v)   == [f EXCEPT !.flt = v]
First(g) == [g EXCEPT !.no = 1]

statusSelect(v)    == OnPage("dashboard") /\ MovesTo(First(Flt(v)))
activeCard         == OnPage("dashboard") /\ MovesTo(Flt("on"))
clearFilter        == OnPage("dashboard") /\ f.flt # "all" /\ MovesTo(Flt("all"))
setIncidentSearch(t) == OnPage("dashboard") /\ f.text # t /\ MovesTo(First([f EXCEPT !.text = t]))
setActiveType(v)   == OnPage("iocs") /\ f.open = "no" /\ MovesTo(First(Flt(v)))
setEventType(v)    == OnPage("audit") /\ MovesTo(First(Flt(v)))
\* Without debouncing: what is typed is asked for.
setTargetId(t)     == OnPage("audit") /\ f.text # t /\ MovesTo(First([f EXCEPT !.text = t, !.search = t]))
setHitSearch(t)    == OnPage("sigma") /\ f.text # t /\ MovesTo([f EXCEPT !.text = t])

\* SigmaHits resets its offset in an effect: the old offset is asked for too.
Resets(g) == /\ mounted /\ g # f /\ f' = First(g) /\ Room(2)
             /\ IF g.no = 1 THEN Shows(net, Key(g)) ELSE net' = AskRows(AskRows(Unasked(Unasked(net, Key(g)), Key(First(g))), Key(g)), Key(First(g)))
             /\ UNCHANGED <<page, mounted, q, db, used, faults>>
setSeverity(v)  == OnPage("sigma") /\ f.moves + used < MaxMoves /\ f.flt # v /\ Resets([Flt(v) EXCEPT !.moves = @ + 1])
Debounced == [f EXCEPT !.search = f.text]
passSearch      == /\ page \in {"dashboard", "sigma"} /\ mounted /\ f.search # f.text
                   /\ IF page = "sigma" THEN Resets(Debounced)
                      ELSE f' = Debounced /\ Shows(net, Key(Debounced)) /\ UNCHANGED <<page, mounted, q, db, used, faults>>

\* When PREV and NEXT can be clicked, with the total of the entry on the screen.
IncidentPager == OnPage("dashboard")
AuditPager    == OnPage("audit") /\ entry.total > 1
IocPager      == OnPage("iocs") /\ f.open = "no" /\ DOMAIN entry.items # {} /\ entry.total > 1
SigmaPager    == OnPage("sigma") /\ ~Loading
YaraPager     == OnPage("yara") /\ entry.total > 1
HasPager      == IncidentPager \/ AuditPager \/ IocPager \/ SigmaPager \/ YaraPager
nextPage == HasPager /\ f.no < 2 /\ f.no < entry.total /\ MovesTo([f EXCEPT !.no = @ + 1])
prevPage == HasPager /\ f.no > 1 /\ MovesTo([f EXCEPT !.no = @ - 1])

\* AuditLog: refetchInterval joins a fetch in flight, REFRESH replaces it.
AuditTick    == /\ OnPage("audit") /\ ~Fetching(Key(f)) /\ Room(1) /\ net' = AskRows(net, Key(f))
                /\ UNCHANGED <<page, mounted, f, q, db, used, faults>>
AuditRefresh == /\ OnPage("audit") /\ entry.have /\ Fetching(Key(f)) /\ net' = AskRows(Unasked(net, Key(f)), Key(f))
                /\ UNCHANGED <<page, mounted, f, q, db, used, faults>>

-----------------------------------------------------------------------------
(* CLOSE_ALL of the dashboard: Promise.all over one PATCH per incident.    *)

OnIncident(r)   == OnPage("dashboard") /\ r \in DOMAIN entry.items
toggleSelect(r) == OnIncident(r) /\ Does([f EXCEPT !.sel = IF r \in @ THEN @ \ {r} ELSE @ \cup {r}])
clearSelection  == OnPage("dashboard") /\ f.sel # {} /\ Does([f EXCEPT !.sel = {}])
\* Nothing disables the button while the requests are in flight.
handleBulkClose ==
  /\ OnPage("dashboard") /\ f.sel # {} /\ Event /\ Room(Cardinality(f.sel))
  /\ LET slot == CHOOSE s \in [f.sel -> FreeIn(net)] : \A x, y \in f.sel : s[x] = s[y] => x = y
         call(r) == NewCall("bulk", [row |-> r, sent |-> f.sel, id |-> used, lost |-> FALSE], TRUE)
     IN  net' = [c \in Slot |-> IF \E r \in f.sel : slot[r] = c THEN call(CHOOSE r \in f.sel : slot[r] = c) ELSE net[c]]
  /\ UNCHANGED <<page, mounted, f, q, db, faults>>
\* Refused while jobs, tasks, processing or a timeline build are active.
ServeBulk(c) ==
  /\ Asked(c, "bulk")
  /\ \/ db.rows[net[c].arg.row] = "on" /\ Serve(c, FALSE, Nothing) /\ UNCHANGED db
     \/ Serve(c, TRUE, Nothing) /\ db' = [ver |-> db.ver + 1, rows |-> [db.rows EXCEPT ![net[c].arg.row] = "off"]]
  /\ UNCHANGED <<page, mounted, f, q, used, faults>>

OfBatch(c) == {d \in Slot \ {c} : net[d].st # "idle" /\ net[d].kind = "bulk" /\ net[d].arg.id = net[c].arg.id}
PatchDone(c) == Resolved(c, "bulk") /\ (OfBatch(c) # {} \/ net[c].arg.lost) /\ Then(c, f, Without(net, c))

\* Mutant: Promise.any in place of Promise.all.
BulkClosedAny(c) ==
  /\ Resolved(c, "bulk") /\ ~net[c].arg.lost
  /\ f' = IF net[c].live THEN [f EXCEPT !.sel = {}, !.closed = net[c].arg.sent] ELSE f
  /\ q' = MarkRows /\ net' = InvalidateRows(Without(net, c))
  /\ UNCHANGED <<page, mounted, db, used, faults>>

BulkClosed(c) ==
  /\ Resolved(c, "bulk") /\ OfBatch(c) = {} /\ ~net[c].arg.lost
  /\ f' = IF net[c].live THEN [f EXCEPT !.sel = {}, !.closed = net[c].arg.sent] ELSE f
  /\ q' = MarkRows /\ net' = InvalidateRows(Without(net, c))
  /\ UNCHANGED <<page, mounted, db, used, faults>>

\* The first rejection ends the wait; selection and list stay as they are.
BulkFails(c) ==
  /\ Rejected(c, "bulk")
  /\ Then(c, f, [d \in Slot |-> IF d \in OfBatch(c) THEN [net[d] EXCEPT !.arg.lost = TRUE] ELSE Without(net, c)[d]])

-----------------------------------------------------------------------------
(* IMPORT IOCs: a fetch of its own, tried once and without a timeout.      *)

openImport  == OnPage("iocs") /\ f.open = "no" /\ Does([f EXCEPT !.open = "ask"])
closeImport == OnPage("iocs") /\ f.open # "no" /\ Does([f EXCEPT !.open = "no"])
handleBulkImport ==
  /\ OnPage("iocs") /\ f.open = "ask" /\ f.busy = "no" /\ Event /\ Room(1)
  /\ f' = [f EXCEPT !.busy = "post"]
  /\ net' = [net EXCEPT ![Least(FreeIn(net))] = [NewCall("import", Nothing, TRUE) EXCEPT !.try = MAX_RETRIES]]
  /\ UNCHANGED <<page, mounted, q, db, faults>>
ServeImport(c) ==
  /\ Asked(c, "import") /\ Serve(c, TRUE, Nothing) /\ db' = [db EXCEPT !.ver = @ + 1]
  /\ UNCHANGED <<page, mounted, f, q, used, faults>>
\* isImporting stays until the matches on the screen are there again.
Imported(c) ==
  /\ Resolved(c, "import")
  /\ q' = MarkRows /\ net' = InvalidateRows(Without(net, c))
  /\ f' = IF net[c].live THEN [f EXCEPT !.busy = "reload", !.wait = Key(f), !.open = IF @ = "ask" THEN "told" ELSE @] ELSE f
  /\ UNCHANGED <<page, mounted, db, used, faults>>

ImportFails(c) == Rejected(c, "import") /\ Then(c, [f EXCEPT !.busy = "no"], Without(net, c))

-----------------------------------------------------------------------------
(* Somebody else: another analyst closes, the log grows, a run replaces    *)
(* the hits.                                                               *)

Elsewhere(r, v) ==
  /\ page \in SearchPage /\ r # Self /\ db.rows[r] # v /\ Event
  /\ v = CASE page = "dashboard" -> "off" [] page = "audit" -> "on" [] OTHER -> IF db.rows[r] = "none" THEN "off" ELSE "none"
  /\ db' = [ver |-> db.ver + 1, rows |-> [db.rows EXCEPT ![r] = v]]
  /\ UNCHANGED <<page, mounted, f, q, net, faults>>

SearchInit ==
  /\ page \in SearchPage /\ f = SearchF
  /\ db = CASE page = "dashboard" -> Table(Row) [] page = "audit" -> Table({Self})
            [] OTHER -> [ver |-> 0, rows |-> [r \in Row |-> IF r = Self THEN "on" ELSE "off"]]
  /\ q = [NoData EXCEPT !.rows = [k \in ShownKeys |-> NoEntry]]
  /\ net = AskRows([c \in Slot |-> NoCall], Key(f))

SearchLeave  == page \in SearchPage /\ Leaves([SearchF EXCEPT !.moves = f.moves])
SearchReturn == /\ page \in SearchPage /\ ~mounted /\ mounted' = TRUE /\ Shows(net, Key(f))
                /\ UNCHANGED <<page, f, q, db, used, faults>>

SearchUser ==
  \/ activeCard \/ clearFilter \/ passSearch \/ nextPage \/ prevPage \/ AuditTick \/ AuditRefresh
  \/ clearSelection \/ handleBulkClose \/ openImport \/ closeImport \/ handleBulkImport
  \/ SearchLeave \/ SearchReturn
  \/ \E v \in {"all", "on"} : statusSelect(v) \/ setActiveType(v) \/ setEventType(v) \/ setSeverity(v)
  \/ \E t \in {"", "self"} : setIncidentSearch(t) \/ setTargetId(t) \/ setHitSearch(t)
  \/ \E r \in Row : toggleSelect(r) \/ \E v \in Value : Elsewhere(r, v)
SearchServed(c)    == ServeRows(c) \/ ServeBulk(c) \/ ServeImport(c)
SearchContinued(c) ==
  \/ RowsArrive(c) \/ RowsAgain(c) \/ RowsFail(c) \/ PatchDone(c) \/ BulkClosed(c) \/ BulkFails(c)
  \/ Imported(c) \/ ImportFails(c)

-----------------------------------------------------------------------------
(* Properties.                                                             *)

\* The rows on the screen fit the filter and the search text that are
\* applied, although the answers for several filters, pages and texts are in
\* flight at once and arrive in any order.
RowsFitFilter ==
  OnSearch => \A r \in DOMAIN entry.items : (f.flt = "all" \/ entry.items[r] = f.flt) /\ (f.search = "" \/ r = Self)

\* CLOSE_ALL clears the selection only when every incident it was asked to
\* close is closed, whatever part of the requests was refused or lost. That
\* a server's stale write may reopen one (Collection) is outside this module.
BulkCloseTruthful == page = "dashboard" => \A r \in f.closed : db.rows[r] = "off"

\* The import dialog is blocked only while an import or the reload after it
\* is under way.
ImportHasCall ==
  page = "iocs" /\ mounted => /\ f.busy = "post" => Pending("import")
                              /\ f.busy = "reload" => Fetching(f.wait)
=============================================================================
