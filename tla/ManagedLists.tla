----------------------------- MODULE ManagedLists -----------------------------
(***************************************************************************)
(* The pages that show a query and change its rows: UserManagement,        *)
(* Collectors, LegalHolds, ScheduledCollections, CustomModules, the        *)
(* HypothesisBuilder and the ThreatHuntLibrary (all categories shown).     *)
(* Each has a form that creates a row and buttons on the rows; every       *)
(* change is followed by an invalidation of the query.                     *)
(***************************************************************************)
EXTENDS PageFrame

NotePages == {"hypotheses", "hunts"}
ListPages == {"users", "collectors", "holds", "schedules", "modules"} \cup NotePages
Listed    == IF q.have THEN Rows(q.rows) ELSE {}

\* What is typed into a form is an input of its submission.
\* form: the creation form is open; busy: it is submitted, and then, on some
\* pages, waits for the list; confirm: the row whose second click deletes;
\* edit, saving: the form inside a row (password, module).  On the pages
\* with notes one form creates and edits, and confirm is the running hunt.
\* acked: the version at which the last change of a row that the page knows
\* of was done.
ListF == [form |-> FALSE, busy |-> "no", confirm |-> None, edit |-> None,
          saving |-> FALSE, acked |-> 0]

ListTypeOK ==
  /\ f \in [form : BOOLEAN, busy : {"no", "posted", "waits"}, confirm : Row \cup {None},
            edit : Row \cup {None}, saving : BOOLEAN,
            acked : 0..db.ver]

ListInit ==
  /\ page \in ListPages
  /\ db = Table({Self}) \/ (page = "users" /\ db = Table(Row))
  /\ f = ListF
  /\ net = Fetch([c \in Slot |-> NoCall], "page")

-----------------------------------------------------------------------------
(* The query.                                                              *)

\* handleCreate and handleAdd wait for the list before they clear the form.
Resumed(g) == IF g.busy = "waits" THEN [g EXCEPT !.busy = "no", !.form = FALSE] ELSE g
ListArrives(c) ==
  /\ page \in ListPages /\ Resolved(c, "list")
  /\ q' = Arrived(c) /\ f' = Resumed(f) /\ net' = Without(net, c)
  /\ UNCHANGED <<page, mounted, db, used, faults>>
ListFails(c) ==
  /\ page \in ListPages /\ LastFetch(c)
  /\ q' = [q EXCEPT !.err = TRUE] /\ f' = Resumed(f) /\ net' = Without(net, c)
  /\ UNCHANGED <<page, mounted, db, used, faults>>

Refetches(who) == /\ Room(1) /\ net' = Fetch(Unlisted(net), who)
                  /\ UNCHANGED <<page, mounted, f, q, db, used, faults>>
\* refetchInterval joins a fetch in flight; the poll of Collectors replaces
\* any but its own.
UsersTick      == OnPage("users") /\ ~ListFlying /\ Refetches("poll")
CollectorsPoll == /\ OnPage("collectors") /\ \A c \in Slot : IsList(net[c]) => q.have /\ net[c].arg.row # "poll"
                  /\ Refetches("poll")
RefreshUsers      == OnPage("users") /\ ~ListFlying /\ Refetches("page")
RefreshCollectors == OnPage("collectors") /\ ~ListFlying /\ Refetches("page")

-----------------------------------------------------------------------------
(* The creation form.                                                      *)

UserForm      == OnPage("users") /\ isAdmin
CollectorForm == OnPage("collectors") /\ isAdmin
HoldForm      == OnPage("holds") /\ isAdmin
ScheduleForm  == OnPage("schedules") /\ canEdit
ModuleForm    == OnPage("modules") /\ canEdit
Waits         == page \in {"users", "collectors"}

openForm  == /\ UserForm \/ CollectorForm \/ HoldForm \/ ScheduleForm \/ ModuleForm
             /\ ~f.form /\ Does([f EXCEPT !.form = TRUE])
closeForm == page \in ListPages \ NotePages /\ f.form /\ Does([f EXCEPT !.form = FALSE])
Submits(r) == f.form /\ f.busy = "no" /\ Calls([f EXCEPT !.busy = "posted"], "create", Arg(r, "on"))
handleCreate(r) == UserForm /\ Submits(r)
handleAdd       == CollectorForm /\ Submits(None)
createHold      == HoldForm /\ Submits(None)
createSchedule  == ScheduleForm /\ Submits(None)
createModule    == ModuleForm /\ Submits(None)

\* resetForm, whatever the form shows by now.
NoteReset == [f EXCEPT !.form = FALSE, !.edit = None, !.busy = "no"]

\* A promise of the page is kept: the query is invalidated.
Done(c, new) ==
  /\ f' = IF net[c].live THEN new ELSE f
  /\ q' = Marked /\ net' = Invalidate(Without(net, c))
  /\ UNCHANGED <<page, mounted, db, used, faults>>
Created(c) ==
  /\ page \in ListPages /\ Resolved(c, "create")
  /\ Done(c, IF page \in NotePages THEN NoteReset
             ELSE IF Waits THEN [f EXCEPT !.busy = "waits"] ELSE [f EXCEPT !.busy = "no", !.form = FALSE])
CreateFails(c) ==
  /\ page \in ListPages /\ Rejected(c, "create")
  /\ Then(c, [f EXCEPT !.busy = "no"], Without(net, c))

-----------------------------------------------------------------------------
(* The buttons of a row.                                                   *)

OnUser(r)      == OnPage("users") /\ r \in Listed /\ r # Self
OnCollector(r) == OnPage("collectors") /\ isAdmin /\ r \in Listed
OnHold(r)      == OnPage("holds") /\ isAdmin /\ r \in Listed /\ q.rows[r] = "on" /\ ~f.saving
OnSchedule(r)  == OnPage("schedules") /\ canEdit /\ r \in Listed
OnModule(r)    == OnPage("modules") /\ canEdit /\ r \in Listed
Flipped(r)     == IF q.rows[r] = "on" THEN "off" ELSE "on"

handleRoleChange(r) == OnUser(r) /\ Calls(f, "edit", Arg(r, "on"))

handleToggleStatus(r) == OnUser(r) /\ Calls(f, "set", Arg(r, Flipped(r)))
handleDelete(r)  == OnUser(r) /\ f.confirm # r /\ Does([f EXCEPT !.confirm = r])
confirmDelete(r) == OnUser(r) /\ f.confirm = r
                    /\ Calls([f EXCEPT !.confirm = None], "delete", Arg(r, "none"))
cancelDelete     == OnPage("users") /\ f.confirm # None /\ Does([f EXCEPT !.confirm = None])
openReset(r)     == OnUser(r) /\ Does([f EXCEPT !.edit = IF @ = r THEN None ELSE r, !.confirm = None])
\* Enter in the field asks again while the button is disabled.
ResetOpen           == OnPage("users") /\ f.edit \in Listed
handlePasswordReset == ResetOpen /\ Calls([f EXCEPT !.saving = TRUE], "reset", Arg(f.edit, "on"))
ResetDone(c)  == Resolved(c, "reset")
                 /\ Then(c, [f EXCEPT !.edit = None, !.saving = FALSE], Without(net, c))
ResetFails(c) == Rejected(c, "reset") /\ Then(c, [f EXCEPT !.saving = FALSE], Without(net, c))

deleteCollector(r) == OnCollector(r) /\ Calls(f, "delete", Arg(r, "none"))
releaseHold(r)     == OnHold(r) /\ Calls([f EXCEPT !.saving = TRUE], "set", Arg(r, "off"))
toggleSchedule(r)  == OnSchedule(r) /\ Calls(f, "toggle", Arg(r, Flipped(r)))
deleteSchedule(r)  == OnSchedule(r) /\ Calls(f, "delete", Arg(r, "none"))

editModule(r)   == OnModule(r) /\ f.edit # r /\ Does([f EXCEPT !.edit = r])
cancelModule    == OnPage("modules") /\ f.edit # None /\ Does([f EXCEPT !.edit = None])
EditingModule   == OnPage("modules") /\ f.edit \in Listed /\ ~f.saving
saveModule      == EditingModule /\ Calls([f EXCEPT !.saving = TRUE], "edit", Arg(f.edit, "on"))
deleteModule(r) == OnModule(r) /\ isAdmin /\ Calls(f, "delete", Arg(r, "none"))

\* The form of the notes may be given to another row while it is saved.
HypothesisForm == OnPage("hypotheses") /\ canEdit
HuntForm       == OnPage("hunts") /\ canEdit
newNote           == (HypothesisForm \/ HuntForm) /\ Does([f EXCEPT !.form = TRUE, !.edit = None])
cancelNote        == page \in NotePages /\ f.form /\ Does([f EXCEPT !.form = FALSE, !.edit = None])
OnHypothesis(r)   == HypothesisForm /\ r \in Listed
OnHunt(r)         == HuntForm /\ r \in Listed
editHypothesis(r) == OnHypothesis(r) /\ Does([f EXCEPT !.form = TRUE, !.edit = r])
editHunt(r)       == OnHunt(r) /\ Does([f EXCEPT !.form = TRUE, !.edit = r])
Saves             == /\ f.form /\ f.busy = "no"
                     /\ Calls([f EXCEPT !.busy = "posted"], IF f.edit = None THEN "create" ELSE "edit", Arg(f.edit, "on"))
saveHypothesis      == HypothesisForm /\ Saves
saveHunt            == HuntForm /\ Saves
deleteHypothesis(r) == OnHypothesis(r) /\ Calls(f, "delete", Arg(r, "none"))
deleteHunt(r)       == OnHunt(r) /\ Calls(f, "delete", Arg(r, "none"))
\* The end of any run clears runningId.
handleRun(r) == OnPage("hunts") /\ r \in Listed /\ f.confirm # r /\ Calls([f EXCEPT !.confirm = r], "run", Arg(r, "on"))
ServeRun(c)  == /\ Asked(c, "run") /\ Serve(c, Exists(c), Nothing)
                /\ UNCHANGED <<page, mounted, f, q, db, used, faults>>
RunEnds(c)   == (Resolved(c, "run") \/ Rejected(c, "run")) /\ Then(c, [f EXCEPT !.confirm = None], Without(net, c))

RowCalls == {"set", "toggle", "edit", "delete"}
\* isPending of the mutations whose buttons look at it.
Saved(c) == IF <<page, net[c].kind>> \in {<<"holds", "set">>, <<"modules", "edit">>} THEN FALSE ELSE f.saving

\* Mutant: a deletion patches nothing and does not invalidate the query.
RowChangedKeepsQuery(c) ==
  /\ page \in ListPages /\ \E k \in RowCalls : Resolved(c, k)
  /\ Then(c, [f EXCEPT !.acked = IF @ < net[c].res.ver THEN net[c].res.ver ELSE @, !.saving = Saved(c)], Without(net, c))

RowChanged(c) ==
  LET v == net[c].res.ver IN
  /\ page \in ListPages /\ \E k \in RowCalls : Resolved(c, k)
  /\ Done(c, [IF page \in NotePages /\ net[c].kind = "edit" THEN NoteReset ELSE Resumed(f) EXCEPT !.acked = IF @ < v THEN v ELSE @, !.saving = Saved(c),
                !.edit = IF page = "modules" /\ net[c].kind = "edit" THEN None ELSE @])
RowFails(c) ==
  /\ page \in ListPages /\ \E k \in RowCalls : Rejected(c, k)
  /\ Then(c, [f EXCEPT !.saving = Saved(c), !.busy = IF page \in NotePages /\ net[c].kind = "edit" THEN "no" ELSE @],
          Without(net, c))

-----------------------------------------------------------------------------
ListLeave  == page \in ListPages /\ Leaves(ListF)
ListReturn == page \in ListPages /\ Returns(ListF)

ListUser ==
  \/ ListLeave \/ ListReturn \/ RefreshUsers \/ RefreshCollectors \/ UsersTick \/ CollectorsPoll
  \/ openForm \/ closeForm \/ cancelDelete \/ handlePasswordReset
  \/ handleAdd \/ createHold \/ createSchedule \/ createModule
  \/ cancelModule \/ saveModule \/ newNote \/ cancelNote \/ saveHypothesis \/ saveHunt
  \/ \E r \in Row : \/ handleCreate(r) \/ handleRoleChange(r) \/ handleToggleStatus(r) \/ handleDelete(r)
                    \/ confirmDelete(r) \/ openReset(r) \/ deleteCollector(r) \/ releaseHold(r)
                    \/ toggleSchedule(r) \/ deleteSchedule(r) \/ editModule(r) \/ deleteModule(r)
                    \/ editHypothesis(r) \/ editHunt(r) \/ deleteHypothesis(r) \/ deleteHunt(r) \/ handleRun(r)
ListContinued(c) ==
  \/ ListArrives(c) \/ ListFails(c) \/ Created(c) \/ CreateFails(c)
  \/ ResetDone(c) \/ ResetFails(c) \/ RunEnds(c) \/ RowChanged(c) \/ RowFails(c)

-----------------------------------------------------------------------------
(* Properties.                                                             *)

OnList  == page \in ListPages /\ mounted

\* A change of a row that the page was told is done is in the list it shows,
\* as soon as no fetch is under way, whatever fetches it crossed.
RowChangesShown == OnList /\ ~ListFlying /\ ~q.err => q.ver >= f.acked
=============================================================================
