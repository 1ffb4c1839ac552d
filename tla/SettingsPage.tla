------------------------------ MODULE SettingsPage ------------------------------
(***************************************************************************)
(* AdminSettings, the tabs SYSTEM CONFIG and AI CONFIG.  Both write the    *)
(* whole settings object: the first as the page has it, the second with    *)
(* its own fields over it.  The server sends secrets as "***" and stores   *)
(* what it is sent.  db.rows is the object as the server sends it, db.key  *)
(* the secret it has.                                                      *)
(***************************************************************************)
EXTENDS PageFrame

\* The values of the system tab (2: refused by the server) and of the AI tab
\* are numbers; the key is absent, typed, hidden or, when stored, the one the
\* server had at first.
Setting == [sys : 0..2, ai : 0..1, key : {"", "***"}]
Stars(k) == IF k = "" THEN "" ELSE "***"

\* copy: systemSettings; sys, ai: what goes on in the save of each tab;
\* tab; model, key: the AI form; validating, verifying: the checks of the
\* tools, whose results are left out; acked: the version of the last system
\* save the page knows of.
SettingsF == [copy |-> Nothing, sys |-> "no", ai |-> "no", tab |-> "system", model |-> 0, key |-> "",
              validating |-> None, verifying |-> FALSE, acked |-> 0]
OnSettings == OnPage("settings")
OnTab(t)   == OnSettings /\ f.tab = t

SettingsTypeOK ==
  /\ db.ver \in 0..MaxVersion /\ db.rows \in Setting /\ db.key \in {"", "stored", "typed", "***"}
  /\ q.ver <= db.ver /\ f.acked \in 0..db.ver
  /\ f.copy \in Setting \cup {Nothing} /\ f.sys \in {"no", "put", "reload"} /\ f.ai \in {"no", "put"}
  /\ f.tab \in {"system", "ai"} /\ f.model \in 0..1 /\ f.key \in {"", "typed", "***"}
  /\ f.validating \in Row \cup {None} /\ f.verifying \in BOOLEAN

SettingsInit ==
  /\ page = "settings" /\ f = SettingsF
  /\ \E k \in {"", "stored"} : db = [ver |-> 0, rows |-> [sys |-> 0, ai |-> 0, key |-> Stars(k)], key |-> k]
  /\ net = Fetch([c \in Slot |-> NoCall], "page")

-----------------------------------------------------------------------------
(* The query, its copy, and loadAdminData.                                 *)

Reload(n) == IF q.have \/ ~ListFlying THEN Fetch(Unlisted(n), "page") ELSE n
Reloaded(g) == [g EXCEPT !.sys = IF @ = "reload" THEN "no" ELSE @]
\* An answer that differs from the one before replaces unsaved edits.
SettingsArrive(c) ==
  /\ page = "settings" /\ Resolved(c, "list")
  /\ f' = IF ~mounted THEN f
          ELSE Reloaded(IF q.have /\ q.rows = net[c].res.rows THEN f ELSE [f EXCEPT !.copy = net[c].res.rows])
  /\ q' = Arrived(c) /\ net' = Without(net, c)
  /\ UNCHANGED <<page, mounted, db, used, faults>>
SettingsFail(c) ==
  /\ page = "settings" /\ LastFetch(c)
  /\ q' = [q EXCEPT !.err = TRUE] /\ f' = Reloaded(f) /\ net' = Without(net, c)
  /\ UNCHANGED <<page, mounted, db, used, faults>>
\* RESET TO DEFAULTS fetches; what was edited stays when nothing changed.
resetToDefaults ==
  /\ OnTab("system") /\ (ListFlying \/ Room(1))
  /\ net' = Reload(net) /\ UNCHANGED <<page, mounted, f, q, db, used, faults>>

-----------------------------------------------------------------------------
(* The server.                                                             *)

\* Mutant: the answer to a save holds the secret itself.
ServeSettingsUnmasked(c) ==
  LET b == net[c].arg IN
  /\ Asked(c, "save") \/ Asked(c, "saveai")
  /\ IF b.copy # Nothing /\ b.copy.sys < 2
     THEN /\ db' = [ver |-> db.ver + 1, rows |-> [b.copy EXCEPT !.key = b.key], key |-> b.key]
          /\ Serve(c, TRUE, Result(db.ver + 1, db'.rows, None))
     ELSE UNCHANGED db /\ Serve(c, FALSE, Nothing)
  /\ UNCHANGED <<page, mounted, f, q, used, faults>>

ServeSettings(c) ==
  LET b == net[c].arg IN
  /\ Asked(c, "save") \/ Asked(c, "saveai")
  /\ IF b.copy # Nothing /\ b.copy.sys < 2
     THEN /\ db' = [ver |-> db.ver + 1, rows |-> [b.copy EXCEPT !.key = Stars(b.key)], key |-> b.key]
          /\ Serve(c, TRUE, Result(db.ver + 1, db'.rows, None))
     ELSE UNCHANGED db /\ Serve(c, FALSE, Nothing)
  /\ UNCHANGED <<page, mounted, f, q, used, faults>>
ServeConfig(c) ==
  /\ Asked(c, "config") /\ Serve(c, TRUE, db.rows)
  /\ UNCHANGED <<page, mounted, f, q, db, used, faults>>
\* The tools are looked for where the stored settings say, not where the
\* form says.
ServeCheck(c) ==
  /\ Asked(c, "check") /\ Serve(c, TRUE, Nothing)
  /\ UNCHANGED <<page, mounted, f, q, db, used, faults>>
OtherAdmin(v) ==
  /\ page = "settings" /\ v # db.rows.sys /\ Event
  /\ db' = [db EXCEPT !.ver = @ + 1, !.rows.sys = v]
  /\ UNCHANGED <<page, mounted, f, q, net, faults>>

-----------------------------------------------------------------------------
(* SYSTEM CONFIG.                                                          *)

Edits(new) == mounted /\ Event /\ f' = new /\ UNCHANGED <<page, mounted, q, db, net, faults>>
setSystemSettings(v) == /\ OnTab("system") /\ f.copy # Nothing /\ v # f.copy.sys
                        /\ Edits([f EXCEPT !.copy.sys = v])
saveSettings ==
  /\ OnTab("system") /\ f.copy # Nothing /\ f.sys = "no"
  /\ Calls([f EXCEPT !.sys = "put"], "save", [copy |-> f.copy, key |-> f.copy.key])

SettingsSaved(c) ==
  /\ Resolved(c, "save")
  /\ Then(c, [f EXCEPT !.copy = net[c].res.rows, !.acked = net[c].res.ver, !.sys = "reload"], Reload(Without(net, c)))
SettingsSaveFails(c) == Rejected(c, "save") /\ Then(c, [f EXCEPT !.sys = "no"], Without(net, c))

CheckEnabled(t) == OnTab("system") /\ f.validating # t /\ ~f.verifying
validateTool(t) == CheckEnabled(t) /\ Calls([f EXCEPT !.validating = t], "check", Arg(t, "one"))
verifyTools     == /\ OnTab("system") /\ ~f.verifying /\ f.validating = None
                   /\ Calls([f EXCEPT !.verifying = TRUE], "check", Arg(None, "all"))
CheckEnds(g, c) == IF net[c].arg.row = None THEN [g EXCEPT !.verifying = FALSE] ELSE [g EXCEPT !.validating = None]
Checked(c)      == Resolved(c, "check") /\ Then(c, CheckEnds(f, c), Without(net, c))

CheckFails(c)   == Rejected(c, "check") /\ Then(c, CheckEnds(f, c), Without(net, c))

-----------------------------------------------------------------------------
(* AI CONFIG.                                                              *)

openAiTab == /\ OnTab("system") /\ Room(1)
             /\ f' = [f EXCEPT !.tab = "ai"] /\ net' = With(net, "config", Nothing, TRUE)
             /\ UNCHANGED <<page, mounted, q, db, used, faults>>
openSystemTab == OnTab("ai") /\ Does([f EXCEPT !.tab = "system"])
ConfigLoaded(c) == /\ Resolved(c, "config")
                   /\ Then(c, [f EXCEPT !.model = net[c].res.ai, !.key = IF net[c].res.key # "" THEN "***" ELSE @], Without(net, c))
ConfigFails(c)  == Rejected(c, "config") /\ Then(c, f, Without(net, c))
setAiModel(v)   == OnTab("ai") /\ v # f.model /\ Edits([f EXCEPT !.model = v])
setAiApiKey     == OnTab("ai") /\ f.key # "typed" /\ Edits([f EXCEPT !.key = "typed"])

\* A hidden key is left out, and the one of the copy, hidden too, is sent.
AiBody == [copy |-> IF f.copy = Nothing THEN Nothing ELSE [f.copy EXCEPT !.ai = f.model],
           key  |-> IF f.key = "typed" THEN "typed" ELSE IF f.copy = Nothing THEN "" ELSE f.copy.key,
           typed |-> f.key = "typed"]
handleSaveAiConfig == OnTab("ai") /\ f.ai = "no" /\ Calls([f EXCEPT !.ai = "put"], "saveai", AiBody)
AiSaved(c)     == /\ Resolved(c, "saveai")
                  /\ Then(c, [f EXCEPT !.ai = "no", !.key = IF net[c].arg.typed THEN "***" ELSE @], Without(net, c))
AiSaveFails(c) == Rejected(c, "saveai") /\ Then(c, [f EXCEPT !.ai = "no"], Without(net, c))

-----------------------------------------------------------------------------
SettingsLeave  == page = "settings" /\ Leaves(SettingsF)
\* The effect of the mount loads whatever the cache has.
SettingsReturn ==
  /\ page = "settings" /\ ~mounted /\ mounted' = TRUE
  /\ ListFlying \/ Room(1)
  /\ f' = [SettingsF EXCEPT !.copy = IF q.have THEN q.rows ELSE Nothing]
  /\ net' = Reload(net)
  /\ UNCHANGED <<page, q, db, used, faults>>

SettingsUser ==
  \/ SettingsLeave \/ SettingsReturn \/ resetToDefaults \/ saveSettings \/ verifyTools
  \/ openAiTab \/ openSystemTab \/ setAiApiKey \/ handleSaveAiConfig
  \/ \E v \in 0..2 : setSystemSettings(v)
  \/ \E v \in 0..1 : setAiModel(v) \/ OtherAdmin(v)
  \/ \E t \in Row : validateTool(t)
SettingsServed(c) == ServeSettings(c) \/ ServeConfig(c) \/ ServeCheck(c)
SettingsContinued(c) ==
  \/ SettingsArrive(c) \/ SettingsFail(c) \/ SettingsSaved(c) \/ SettingsSaveFails(c)
  \/ Checked(c) \/ CheckFails(c) \/ ConfigLoaded(c) \/ ConfigFails(c) \/ AiSaved(c) \/ AiSaveFails(c)

-----------------------------------------------------------------------------
(* Properties.                                                             *)

\* The settings of the query are those of the last system save the page was
\* told of, or later ones, once no fetch is under way.
SavedIsFetched == OnSettings /\ ~ListFlying /\ ~q.err => q.ver >= f.acked

\* A save, a tool check and a check of all tools that are shown as going on
\* have their request in flight, or the fetch that follows the save; one
\* check ending while another goes on does not leave a marker behind.
SettingsSpinnerHasCall ==
  OnSettings => /\ f.sys = "put" => Pending("save")
                /\ f.sys = "reload" => ListFlying
                /\ f.ai = "put" => Pending("saveai")
                /\ \A t \in {f.validating} \cap Row : \E c \in Slot : net[c].kind = "check" /\ net[c].live /\ net[c].arg.row = t
                /\ f.verifying => \E c \in Slot : net[c].kind = "check" /\ net[c].live /\ net[c].arg.row = None
=============================================================================
