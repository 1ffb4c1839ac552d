------------------------------- MODULE AdminTabs -------------------------------
(***************************************************************************)
(* Three tabs of AdminSettings: the user accounts, the collector nodes and *)
(* the IOC indicators.  The tabs are one component, but these share no     *)
(* state: each is a page of its own here.                                  *)
(***************************************************************************)
EXTENDS LocalLists

\* loadAdminData: on mounting, and by the buttons of the system tab.
loadAdminData ==
  /\ OnPage("accounts") \/ OnPage("nodes")
  /\ ListFlying \/ Room(1)
  /\ net' = Invalidate(net) /\ UNCHANGED <<page, mounted, f, q, db, used, faults>>
AdminReturn ==
  /\ page \in {"accounts", "nodes", "indicators"} /\ ~mounted /\ mounted' = TRUE
  /\ f' = LocalF(IF q.have THEN q.rows ELSE Empty)
  /\ ListFlying \/ Room(1)
  /\ net' = IF ListFlying /\ ~q.have THEN net ELSE Opening(Unlisted(net))
  /\ UNCHANGED <<page, q, db, used, faults>>

-----------------------------------------------------------------------------
(* The accounts.  edit tells the two dialogs apart.                        *)

OnAccount(r) == OnPage("accounts") /\ ~f.dialog /\ r \in Matched(f)
isSelf(r)    == r = Self
AddOpen      == OnPage("accounts") /\ f.dialog /\ f.edit = None
EditOpen     == OnPage("accounts") /\ f.dialog /\ f.edit # None
Shut(g, add) == IF add = (g.edit = None) THEN [g EXCEPT !.dialog = FALSE, !.edit = None] ELSE g

handleAddUserDialogChange == OnPage("accounts") /\ ~f.dialog /\ Does([f EXCEPT !.dialog = TRUE, !.edit = None])
openEditUserDialog(r)  == OnAccount(r) /\ Does([f EXCEPT !.dialog = TRUE, !.edit = r])
handleEditDialogChange == OnPage("accounts") /\ f.dialog /\ Does([f EXCEPT !.dialog = FALSE, !.edit = None])

\* Nothing keeps a second click from a second request.
handleAddUser(r) == AddOpen /\ Calls(f, "create", Closure(r, "on"))
UserAdded(c)     == /\ page = "accounts" /\ Resolved(c, "create")
                    /\ Ended(c, Shut(Added(Restored(net[c].arg.snap), net[c].arg.row), TRUE))

handleDeleteUser(r)  == OnAccount(r) /\ ~isSelf(r) /\ f.confirm # r /\ Does([f EXCEPT !.confirm = r])
confirmDeleteUser(r) == /\ OnAccount(r) /\ ~isSelf(r) /\ f.confirm = r
                        /\ Calls([f EXCEPT !.confirm = None], "delete", Closure(r, "none"))
cancelDeleteUser     == OnPage("accounts") /\ ~f.dialog /\ f.confirm # None /\ Does([f EXCEPT !.confirm = None])
UserDeleted(c)       == /\ page = "accounts" /\ Resolved(c, "delete")
                        /\ Ended(c, Removed(Restored(net[c].arg.snap), net[c].arg.row))

handleToggleUserStatus(r) ==
  /\ OnAccount(r) /\ ~isSelf(r)
  /\ Calls(f, "set", Closure(r, IF f.rows[r] = "on" THEN "off" ELSE "on"))
UserToggled(c) == /\ page = "accounts" /\ Resolved(c, "set")
                  /\ Ended(c, Mapped(Restored(net[c].arg.snap), net[c].arg.row, net[c].arg.val))

handleSaveUser(v) ==
  /\ EditOpen /\ ~f.saving
  /\ Calls([f EXCEPT !.saving = TRUE], "put", Closure(f.edit, v))
UserSaved(c) ==
  LET r == net[c].arg.row IN
  /\ page = "accounts" /\ Resolved(c, "put")
  /\ Ended(c, [Shut(Mapped(Restored(net[c].arg.snap), r, net[c].res.rows[r]), FALSE) EXCEPT !.saving = FALSE])
SaveUserFails(c) == page = "accounts" /\ Rejected(c, "put") /\ Ended(c, [f EXCEPT !.saving = FALSE])
AccountFails(c)  == /\ page = "accounts" /\ \E k \in {"create", "set", "delete"} : Rejected(c, k)
                    /\ Ended(c, f)

-----------------------------------------------------------------------------
(* The collector nodes, and what both tabs load by themselves.             *)

Loads(new, who) ==
  /\ mounted /\ Room(1) /\ f' = new /\ net' = With(net, "load", Arg(who, new.filter), TRUE)
  /\ UNCHANGED <<page, mounted, q, db, used, faults>>
ServeLoad(c) ==
  LET v == net[c].arg.val IN
  /\ Asked(c, "load")
  /\ Serve(c, TRUE, Result(db.ver, [r \in Row |-> IF v \in {"all", db.rows[r]} THEN db.rows[r] ELSE "none"], None))
  /\ UNCHANGED <<page, mounted, f, q, db, used, faults>>

refreshCollectors  == OnPage("nodes") /\ ~f.busy /\ Loads([f EXCEPT !.busy = TRUE], None)
switchCollector(r) == /\ OnPage("nodes") /\ r \in Matched(f)
                      /\ Calls(f, "set", Arg(r, IF f.rows[r] = "on" THEN "off" ELSE "on"))
CollectorSwitched(c) == /\ page = "nodes" /\ Resolved(c, "set")
                        /\ Ended(c, Mapped(f, net[c].arg.row, net[c].res.rows[net[c].arg.row]))

\* An answer is shown whatever filter is set when it arrives.
ShowsLoad(g, c) == [g EXCEPT !.rows = net[c].res.rows, !.twice = {}]
EndsLoad(g, c)  == [g EXCEPT !.busy = FALSE, !.saving = IF net[c].arg.row = "add" THEN FALSE ELSE @]
Loaded(c)    == Resolved(c, "load") /\ Ended(c, EndsLoad(ShowsLoad(f, c), c))
LoadBreaks(c) == Rejected(c, "load") /\ Ended(c, EndsLoad(f, c))

-----------------------------------------------------------------------------
(* The indicators; a row's value is its type.                              *)

setIocTypeFilter(s) == OnPage("indicators") /\ s # f.filter /\ Loads([f EXCEPT !.filter = s], None)
loadIOCIndicators   == OnPage("indicators") /\ Loads(f, None)
\* The Enter key does not look at isAddingIoc.
handleAddIOC == OnPage("indicators") /\ Calls([f EXCEPT !.saving = TRUE], "create", Arg(None, f.filter))

\* The list is loaded with the filter of the click, and waited for.
IocAdded(c)  == /\ page = "indicators" /\ Resolved(c, "create")
                /\ Then(c, f, IF net[c].live THEN With(Without(net, c), "load", Arg("add", net[c].arg.val), TRUE)
                              ELSE Without(net, c))
AddIocFails(c)     == page = "indicators" /\ Rejected(c, "create") /\ Ended(c, [f EXCEPT !.saving = FALSE])
handleDeleteIOC(r) == OnPage("indicators") /\ r \in Matched(f) /\ Calls(f, "delete", Arg(r, "none"))
IocDeleted(c)      == page = "indicators" /\ Resolved(c, "delete") /\ Ended(c, Removed(f, net[c].arg.row))
TabFails(c)        == /\ page \in {"nodes", "indicators"} /\ (Rejected(c, "set") \/ Rejected(c, "delete"))
                      /\ Ended(c, f)

-----------------------------------------------------------------------------
AdminUser ==
  \/ loadAdminData \/ AdminReturn \/ handleAddUserDialogChange \/ handleEditDialogChange \/ cancelDeleteUser
  \/ refreshCollectors \/ loadIOCIndicators \/ handleAddIOC
  \/ \E s \in {"all", "on", "off"} : setIocTypeFilter(s)
  \/ \E v \in {"on", "off"} : handleSaveUser(v)
  \/ \E r \in Row : \/ openEditUserDialog(r) \/ handleAddUser(r) \/ handleDeleteUser(r) \/ confirmDeleteUser(r)
                    \/ handleToggleUserStatus(r) \/ switchCollector(r) \/ handleDeleteIOC(r)
AdminContinued(c) ==
  \/ UserAdded(c) \/ UserDeleted(c) \/ UserToggled(c) \/ UserSaved(c) \/ SaveUserFails(c) \/ AccountFails(c)
  \/ CollectorSwitched(c) \/ Loaded(c) \/ LoadBreaks(c) \/ IocAdded(c) \/ AddIocFails(c) \/ IocDeleted(c) \/ TabFails(c)
=============================================================================
