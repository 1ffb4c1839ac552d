------------------------------ MODULE LocalLists ------------------------------
(***************************************************************************)
(* The pages that copy a query into their own state and patch the copy:    *)
(* Devices and IncidentTemplates, and with AdminTabs three tabs of         *)
(* AdminSettings.  The query is not told of the patches; an answer of it   *)
(* replaces the copy when it differs from the one before.                  *)
(***************************************************************************)
EXTENDS PageFrame

LocalPages == {"devices", "templates", "accounts", "nodes", "indicators"}
OnLocal    == page \in LocalPages /\ mounted

\* rows, twice: the copy, and the rows it has two times; confirm: the device
\* whose second click toggles; dialog, edit, saving: the dialog;
\* filter, query: the filters, query as useDebounce passes it on;
\* cur, per: usePagination; busy: an agent binary is being downloaded, the
\* collectors are being refreshed.
LocalF(rows) == [rows |-> rows, twice |-> {}, confirm |-> None, dialog |-> FALSE, edit |-> None,
                 saving |-> FALSE, filter |-> "all", query |-> "",
                 cur |-> 1, per |-> 1, busy |-> FALSE]
Empty      == [r \in Row |-> "none"]

LocalTypeOK ==
  f \in [rows : [Row -> Value], twice : SUBSET Row, confirm : Row \cup {None}, dialog : BOOLEAN,
         edit : Row \cup {None}, saving : BOOLEAN, filter : {"all", "on", "off"},
         query : {"", "text"}, cur : 1..(2 * Cardinality(Row)), per : 1..2, busy : BOOLEAN]

\* A closure takes the list of the render it was made in with it.
Closure(r, v) == [row |-> r, val |-> v, snap |-> [rows |-> f.rows, twice |-> f.twice]]

\* The indicators are loaded by the tab itself, without a query.
Opening(n) == IF page = "indicators" THEN With(n, "load", Arg(None, "all"), TRUE) ELSE Fetch(n, "page")
LocalInit ==
  /\ page \in LocalPages
  /\ db = Table(IF page \in {"devices", "nodes"} THEN Row ELSE {Self})
  /\ f = LocalF(Empty)
  /\ net = Opening([c \in Slot |-> NoCall])

-----------------------------------------------------------------------------
(* Filters and usePagination.  The rows that a text finds: all but one.    *)

Matched(g)    == {r \in Row : /\ g.rows[r] # "none"
                              /\ page # "devices" \/ g.filter \in {"all", g.rows[r]}
                              /\ g.query = "" \/ r # Self}
Items(g)      == Cardinality(Matched(g)) + Cardinality(Matched(g) \cap g.twice)
TotalPages(g) == LET n == (Items(g) + g.per - 1) \div g.per IN IF n < 1 THEN 1 ELSE n

\* Mutant: a page past the end stays where it is.
ClampedNever(g) == g

\* The effect that follows every render.
Clamped(g) == IF g.cur > TotalPages(g) THEN [g EXCEPT !.cur = 1] ELSE g

Paged         == page \in {"devices", "templates", "accounts"}
\* An open dialog is modal: what is behind it cannot be clicked.
View(new)     == OnLocal /\ ~f.dialog /\ Event /\ f' = Clamped(new) /\ UNCHANGED <<page, mounted, q, db, net, faults>>
goToPage(p)   == Paged /\ p <= TotalPages(f) /\ p # f.cur /\ View([f EXCEPT !.cur = p])
setPerPage(n) == Paged /\ n # f.per /\ View([f EXCEPT !.per = n, !.cur = 1])
setFilter(s)  == page = "devices" /\ s # f.filter /\ View([f EXCEPT !.filter = s])
search(t)     == page = "devices" /\ t # f.query /\ View([f EXCEPT !.query = t])

-----------------------------------------------------------------------------
(* The query and the effect that copies it.                                *)

Copied(c) == IF ~mounted \/ (q.have /\ q.rows = net[c].res.rows) THEN f
             ELSE Clamped([f EXCEPT !.rows = net[c].res.rows, !.twice = {}])
LocalArrives(c) ==
  /\ page \in LocalPages /\ Resolved(c, "list")
  /\ f' = Copied(c) /\ q' = Arrived(c) /\ net' = Without(net, c)
  /\ UNCHANGED <<page, mounted, db, used, faults>>
LocalFails(c) ==
  /\ page \in LocalPages /\ LastFetch(c)
  /\ q' = [q EXCEPT !.err = TRUE] /\ net' = Without(net, c)
  /\ UNCHANGED <<page, mounted, f, db, used, faults>>
refreshDevices ==
  /\ OnPage("devices") /\ ~f.dialog /\ ~ListFlying /\ Room(1)
  /\ net' = Fetch(net, "page")
  /\ UNCHANGED <<page, mounted, f, q, db, used, faults>>

\* What an answer does to the copy.
Has(g, r)      == g.rows[r] # "none"
Added(g, r)    == [g EXCEPT !.rows[r] = "on", !.twice = IF Has(g, r) THEN @ \cup {r} ELSE @]
Mapped(g, r, v) == IF Has(g, r) THEN [g EXCEPT !.rows[r] = v] ELSE g
Removed(g, r)  == [g EXCEPT !.rows[r] = "none", !.twice = @ \ {r}]
Restored(s)    == [f EXCEPT !.rows = s.rows, !.twice = s.twice]
Ended(c, new)  == Then(c, Clamped(new), Without(net, c))

-----------------------------------------------------------------------------
(* Devices.tsx.                                                            *)

OnDevice(r) == OnPage("devices") /\ isAdmin /\ ~f.dialog /\ r \in Matched(f)

openAdd   == OnPage("devices") /\ isAdmin /\ ~f.dialog /\ Does([f EXCEPT !.dialog = TRUE])
AddDialog == OnPage("devices") /\ f.dialog
closeAdd  == AddDialog /\ Does([f EXCEPT !.dialog = FALSE])
handleAddDevice(r) ==
  /\ AddDialog /\ isAdmin /\ ~f.saving
  /\ Calls([f EXCEPT !.saving = TRUE], "create", Arg(r, "on"))
DeviceAdded(c) ==
  /\ page = "devices" /\ Resolved(c, "create")
  /\ Ended(c, [Added(f, net[c].arg.row) EXCEPT !.dialog = FALSE, !.saving = FALSE])

\* Mutant: without the finally.
AddFailsSaving(c) == page = "devices" /\ Rejected(c, "create") /\ Ended(c, f)

AddFails(c) == page = "devices" /\ Rejected(c, "create") /\ Ended(c, [f EXCEPT !.saving = FALSE])

toggleDeviceStatus(r) == OnDevice(r) /\ f.confirm # r /\ Does([f EXCEPT !.confirm = r])
cancelToggle          == OnPage("devices") /\ ~f.dialog /\ f.confirm # None /\ Does([f EXCEPT !.confirm = None])
confirmToggle(r)      == /\ OnDevice(r) /\ f.confirm = r
                         /\ Calls([f EXCEPT !.confirm = None], "set", Arg(r, IF f.rows[r] = "on" THEN "off" ELSE "on"))
DeviceToggled(c)      == Resolved(c, "set") /\ page = "devices"
                         /\ Ended(c, Mapped(f, net[c].arg.row, net[c].res.rows[net[c].arg.row]))
removeDevice(r)       == OnDevice(r) /\ Calls(f, "delete", Arg(r, "none"))
DeviceRemoved(c)      == Resolved(c, "delete") /\ page = "devices" /\ Ended(c, Removed(f, net[c].arg.row))
DeviceFails(c)        == page = "devices" /\ (Rejected(c, "set") \/ Rejected(c, "delete")) /\ Ended(c, f)

\* fetch() by itself: nothing is tried again.
BinaryOffered == OnPage("devices") /\ ~f.dialog /\ ~f.busy
downloadAgentBinary ==
  /\ BinaryOffered /\ Event /\ Room(1)
  /\ f' = [f EXCEPT !.busy = TRUE]
  /\ net' = [With(net, "binary", Nothing, TRUE) EXCEPT ![Least(FreeIn(net))].try = MAX_RETRIES]
  /\ UNCHANGED <<page, mounted, q, db, faults>>
ServeBinary(c) == Asked(c, "binary") /\ Serve(c, TRUE, Nothing) /\ UNCHANGED <<page, mounted, f, q, db, used, faults>>
Downloaded(c)  == (Resolved(c, "binary") \/ Rejected(c, "binary")) /\ Ended(c, [f EXCEPT !.busy = FALSE])

-----------------------------------------------------------------------------
(* IncidentTemplates.tsx.                                                  *)

OnTemplates   == OnPage("templates") /\ canEdit
OnTemplate(r) == OnTemplates /\ ~f.dialog /\ r \in Matched(f)

openCreateDialog  == OnTemplates /\ ~f.dialog /\ Does([f EXCEPT !.dialog = TRUE, !.edit = None])
openEditDialog(r) == OnTemplate(r) /\ Does([f EXCEPT !.dialog = TRUE, !.edit = r])
closeDialog       == OnTemplates /\ f.dialog /\ Does([f EXCEPT !.dialog = FALSE])

SaveEnabled == OnTemplates /\ f.dialog /\ ~f.saving
handleSave ==
  /\ SaveEnabled
  /\ Calls([f EXCEPT !.saving = TRUE], IF f.edit = None THEN "create" ELSE "edit", Closure(f.edit, "on"))

SavedAs(g)  == [g EXCEPT !.saving = FALSE, !.dialog = FALSE]
TemplateCreated(c) ==
  /\ page = "templates" /\ Resolved(c, "create")
  /\ Ended(c, SavedAs(Added(Restored(net[c].arg.snap), net[c].res.new)))
TemplateUpdated(c) ==
  /\ page = "templates" /\ Resolved(c, "edit")
  /\ Ended(c, SavedAs(Mapped(f, net[c].arg.row, net[c].res.rows[net[c].arg.row])))
SaveFails(c) ==
  /\ page = "templates" /\ (Rejected(c, "create") \/ Rejected(c, "edit"))
  /\ Ended(c, SavedAs(f))

duplicateTemplate(r) == OnTemplate(r) /\ Calls(f, "copy", Closure(r, "on"))
Duplicated(c)        == Resolved(c, "copy") /\ Ended(c, Added(Restored(net[c].arg.snap), net[c].res.new))
deleteTemplate(r)    == OnTemplate(r) /\ Calls(f, "delete", Closure(r, "none"))
TemplateDeleted(c)   == /\ page = "templates" /\ Resolved(c, "delete")
                        /\ Ended(c, Removed(Restored(net[c].arg.snap), net[c].arg.row))
applyTemplate(r)     == OnTemplate(r) /\ Calls(f, "use", Closure(r, "on"))
\* The page is left for CreateIncident.
TemplateApplied(c)   == /\ Resolved(c, "use") /\ mounted' = FALSE /\ f' = LocalF(Empty)
                        /\ net' = Orphaned(Without(net, c))
                        /\ UNCHANGED <<page, q, db, used, faults>>
TemplateFails(c)     == /\ page = "templates" /\ (Rejected(c, "copy") \/ Rejected(c, "delete") \/ Rejected(c, "use"))
                        /\ Ended(c, f)

-----------------------------------------------------------------------------
LocalLeave  == page \in LocalPages /\ Leaves(LocalF(Empty))
LocalReturn == page \in {"devices", "templates"} /\ Returns(LocalF(IF q.have THEN q.rows ELSE Empty))

LocalUser ==
  \/ LocalLeave \/ LocalReturn \/ refreshDevices
  \/ openAdd \/ closeAdd \/ cancelToggle \/ downloadAgentBinary
  \/ openCreateDialog \/ closeDialog \/ handleSave
  \/ \E p \in 1..(2 * Cardinality(Row)) : goToPage(p)
  \/ \E n \in 1..2 : setPerPage(n)
  \/ \E s \in {"all", "on", "off"} : setFilter(s)
  \/ \E t \in {"", "text"} : search(t)
  \/ \E r \in Row : \/ handleAddDevice(r) \/ toggleDeviceStatus(r) \/ confirmToggle(r) \/ removeDevice(r)
                    \/ openEditDialog(r) \/ duplicateTemplate(r) \/ deleteTemplate(r) \/ applyTemplate(r)
LocalContinued(c) ==
  \/ LocalArrives(c) \/ LocalFails(c)
  \/ DeviceAdded(c) \/ AddFails(c) \/ DeviceToggled(c) \/ DeviceRemoved(c) \/ DeviceFails(c) \/ Downloaded(c)
  \/ TemplateCreated(c) \/ TemplateUpdated(c) \/ SaveFails(c) \/ Duplicated(c) \/ TemplateDeleted(c)
  \/ TemplateApplied(c) \/ TemplateFails(c)

-----------------------------------------------------------------------------
(* Properties.                                                             *)

\* A page of the table is never empty while rows pass the filters, whatever
\* was removed, filtered or fetched since it was chosen.
PageNotEmpty == OnLocal /\ Items(f) > 0 => (f.cur - 1) * f.per < Items(f)

\* A dialog that is saving, a download and a refresh have the request in
\* flight that ends them, whatever else was sent and however it ended: none
\* of them is left behind, disabled for good.
SpinnerHasCall ==
  /\ OnLocal /\ f.saving => \/ \E k \in {"create", "edit", "put"} : Pending(k)
                           \/ \E c \in Slot : net[c].kind = "load" /\ net[c].live /\ net[c].arg.row = "add"
  /\ OnLocal /\ f.busy => Pending("binary") \/ Pending("load")
=============================================================================
