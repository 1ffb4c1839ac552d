-------------------------- MODULE CollectionWizard ---------------------------
(***************************************************************************)
(* The two pages that prepare a collection: CreateIncident, which posts    *)
(* the incident, and CollectionSetup, which loads the modules of an        *)
(* operating system and lets the analyst choose among them and among the   *)
(* devices.  What is chosen is handed to CollectionExecution (a module of  *)
(* its own) in location.state; its start request is the last step here.    *)
(***************************************************************************)
EXTENDS PageCalls, Sequences

CONSTANTS
  Host,           \* names the analyst may type as a target
  Device,         \* the registered devices among them
  OS, DeviceOS,   \* operating systems, and the one of each device
  Module,         \* collection modules
  ModulesOf,      \* the modules of each operating system
  CategoryOf,     \* the category each module is listed under
  Profile,        \* profiles other than "full"
  ProfileOf,      \* profile and operating system to modules
  Query, Matches, \* search texts, and the modules each one finds
  None,
  IsViewer,       \* the signed-in user has the viewer role
  MaxTargets,     \* bound: endpoints on the form
  MaxEdits,       \* bound: changes the analyst makes on the setup page
  MaxVisits       \* bound: departures and returns

ASSUME WizardAssumption ==
  /\ Device \subseteq Host /\ DeviceOS \in [Device -> OS] /\ "windows" \in OS
  /\ ModulesOf \in [OS -> SUBSET Module] /\ DOMAIN CategoryOf = Module
  /\ ProfileOf \in [Profile -> [OS -> SUBSET Module]]
  /\ \A p \in Profile, o \in OS : ProfileOf[p][o] \subseteq ModulesOf[o]
  /\ Matches \in [Query -> SUBSET Module] /\ None \notin Query
  /\ "full" \notin Profile /\ None \notin OS /\ None \notin Profile
  /\ IsViewer \in BOOLEAN /\ MaxTargets \in Nat \ {0} /\ MaxEdits \in Nat /\ MaxVisits \in Nat

VARIABLES
  inc, targets,   \* server: the incident, and its target_endpoints
  jobs,           \* server: the devices that have a collection job
  page,           \* the mounted page
  create, setup,  \* the state of each page
  nav,            \* location.state of CollectionExecution
  visits

backend == <<inc, targets, jobs>>
client  == <<page, create, setup, nav, visits>>
vars    == <<backend, client, net, faults>>

Targets  == UNION {[1..n -> Host] : n \in 0..MaxTargets}
Category == {CategoryOf[m] : m \in Module}
Targeted == {d \in Device : \E i \in DOMAIN targets : targets[i] = d}

\* A template arrives in location.state with a type and default endpoints.
CreateInit(eps) == [endpoints |-> eps, template |-> eps # <<>>, type |-> eps # <<>>, operator |-> FALSE,
                    isStarting |-> FALSE, error |-> FALSE]
SetupInit  == [isLoading |-> TRUE, detected |-> "windows", override |-> None, listed |-> {},
               profiles |-> FALSE, selected |-> {}, profile |-> None, devices |-> {},
               ticked |-> {}, query |-> None, collapsed |-> {}, error |-> FALSE, edits |-> 0,
               crossed |-> FALSE]   \* (history) the selection answers for another system
NoNav      == [modules |-> {}, os |-> None, agents |-> None]

TypeOK ==
  /\ CallsTypeOK
  /\ inc \in {"none", "PENDING", "COLLECTION_IN_PROGRESS"} /\ targets \in Targets /\ jobs \subseteq Device
  /\ page \in {"create", "setup", "collect", "away"} /\ visits \in 0..MaxVisits
  /\ create \in [endpoints : Targets, template : BOOLEAN, type : BOOLEAN, operator : BOOLEAN,
                 isStarting : BOOLEAN, error : BOOLEAN]
  /\ setup \in [isLoading : BOOLEAN, detected : OS, override : OS \cup {None},
                listed : SUBSET Module, profiles : BOOLEAN, selected : SUBSET Module,
                profile : Profile \cup {"full", None}, devices : SUBSET Device, ticked : SUBSET Device,
                query : Query \cup {None}, collapsed : SUBSET Category,
                error : BOOLEAN, edits : 0..MaxEdits, crossed : BOOLEAN]
  /\ nav.modules \subseteq Module /\ nav.os \in OS \cup {None}
  /\ nav.agents = None \/ nav.agents \subseteq Device

Init ==
  /\ CallsInit
  /\ inc = "none" /\ targets = <<>> /\ jobs = {}
  /\ page = "create" /\ create \in {CreateInit(eps) : eps \in {<<>>} \cup [1..1 -> Host]}
  /\ setup = SetupInit /\ nav = NoNav /\ visits = 0

-----------------------------------------------------------------------------
(* Mounting and leaving.                                                   *)

\* A page starts anew, the setup page with its first read; n: the calls in
\* flight, already orphaned.
Mount(p, n) ==
  /\ page' = p /\ create' = CreateInit(<<>>) /\ setup' = SetupInit
  /\ net' = IF p = "setup" THEN With(n, "incident", Nothing, TRUE) ELSE n

\* BACK, ABORT and CANCEL go to the dashboard; its list leads back to setup.
Leave  == /\ page \in {"create", "setup", "collect"} /\ visits < MaxVisits /\ visits' = visits + 1
          /\ Mount("away", Orphaned(net))
          /\ UNCHANGED <<backend, nav, faults>>
Return == /\ page = "away" /\ inc # "none" /\ Room(1)
          /\ Mount("setup", net)
          /\ UNCHANGED <<backend, nav, visits, faults>>

Quiet == UNCHANGED <<backend, page, nav, visits, faults>>

-----------------------------------------------------------------------------
(* CreateIncident.tsx.                                                     *)

OnForm(new) == page = "create" /\ ~IsViewer /\ create' = new /\ Quiet /\ UNCHANGED <<setup, net>>

\* The text is compared as it was typed and kept in capitals: a name typed in
\* small letters is never found among the endpoints.
addEndpoint(h, capitals) ==
  /\ Len(create.endpoints) < MaxTargets
  /\ capitals => \A i \in DOMAIN create.endpoints : create.endpoints[i] # h
  /\ OnForm([create EXCEPT !.endpoints = Append(@, h)])
removeEndpoint(h) ==
  /\ \E i \in DOMAIN create.endpoints : create.endpoints[i] = h
  /\ OnForm([create EXCEPT !.endpoints = SelectSeq(@, LAMBDA e : e # h)])
chooseType    == ~create.type /\ OnForm([create EXCEPT !.type = TRUE])
enterOperator == ~create.operator /\ OnForm([create EXCEPT !.operator = TRUE])
clearTemplate == create.template /\ OnForm([create EXCEPT !.template = FALSE, !.type = FALSE, !.endpoints = <<>>,
                                              !.error = FALSE])

isValid       == create.type /\ create.endpoints # <<>> /\ create.operator
CreateEnabled == page = "create" /\ isValid /\ ~create.isStarting /\ ~IsViewer
handleCreate ==
  /\ CreateEnabled /\ Room(1)
  /\ create' = [create EXCEPT !.isStarting = TRUE, !.error = FALSE]
  /\ net' = With(net, "create", create.endpoints, TRUE)
  /\ Quiet /\ UNCHANGED setup

\* The page chose the id: a second insert of it is refused.
ServeCreate(c) ==
  /\ Asked(c, "create")
  /\ Serve(c, inc = "none", Nothing)
  /\ IF inc = "none" THEN inc' = "PENDING" /\ targets' = net[c].arg ELSE UNCHANGED <<inc, targets>>
  /\ UNCHANGED <<jobs, client, faults>>

\* navigate() takes the analyst to the setup page, wherever he went meanwhile.
Created(c) ==
  /\ Resolved(c, "create") /\ Room(1)
  /\ IF page = "setup" THEN net' = Without(net, c) /\ UNCHANGED <<page, create, setup>>
                       ELSE Mount("setup", Orphaned(Without(net, c)))
  /\ UNCHANGED <<backend, nav, visits, faults>>
CreateFails(c) ==
  /\ Rejected(c, "create")
  /\ create' = IF net[c].live THEN [create EXCEPT !.isStarting = FALSE, !.error = TRUE] ELSE create
  /\ net' = Without(net, c)
  /\ Quiet /\ UNCHANGED setup

-----------------------------------------------------------------------------
(* CollectionSetup.tsx: loading.  Its calls are reads: none outlives it.   *)

activeOS        == IF setup.override = None THEN setup.detected ELSE setup.override

\* Mutant: a host that is no registered device has no operating system.
normalizeOSNone(h) == IF h \in Device THEN DeviceOS[h] ELSE None

normalizeOS(h) == IF h \in Device THEN DeviceOS[h] ELSE "windows"
Loads(new, n)   == setup' = new /\ net' = n /\ Quiet /\ UNCHANGED create
Chain(c, k, a)  == With(Without(net, c), k, a, TRUE)

ServeRead(c) ==
  /\ \E k \in {"incident", "devices", "lists", "targets", "modules", "profile"} : Asked(c, k)
  /\ Serve(c, TRUE, CASE net[c].kind \in {"lists", "modules"} -> ModulesOf[net[c].arg]
                      [] net[c].kind = "profile" -> ProfileOf[net[c].arg[1]][net[c].arg[2]]
                      [] OTHER -> {})
  /\ UNCHANGED <<backend, client, faults>>

\* load(): the incident, the devices, the lists, and the devices once more.
GotIncident(c) == Resolved(c, "incident") /\ Loads(setup, Chain(c, "devices", Nothing))
GotDevices(c)  == LET os == normalizeOS(targets[1]) IN
                  /\ Resolved(c, "devices")
                  /\ Loads([setup EXCEPT !.detected = os], Chain(c, "lists", os))
GotLists(c)    == /\ Resolved(c, "lists")
                  /\ Loads([setup EXCEPT !.listed = net[c].res, !.profiles = TRUE],
                           Chain(c, "targets", net[c].res))
GotTargets(c)  == /\ Resolved(c, "targets")
                  /\ Loads([setup EXCEPT !.devices = Targeted, !.ticked = Targeted,
                              !.selected = net[c].arg, !.profile = "full", !.isLoading = FALSE,
                              !.crossed = FALSE],
                           Without(net, c))
LoadFails(c) ==
  /\ \E k \in {"incident", "devices", "lists", "targets"} : Rejected(c, k)
  /\ Loads([setup EXCEPT !.error = TRUE, !.isLoading = FALSE], Without(net, c))

-----------------------------------------------------------------------------
(* CollectionSetup.tsx: choosing.                                          *)

CanEdit      == page = "setup" /\ ~IsViewer /\ setup.edits < MaxEdits
Edited(new)  == setup' = [new EXCEPT !.edits = @ + 1]
OnSetup(new) == CanEdit /\ Edited(new) /\ Quiet /\ UNCHANGED <<create, net>>
Asks(new, k, a) == /\ CanEdit /\ Room(1) /\ Edited(new) /\ net' = With(net, k, a, TRUE)
                   /\ Quiet /\ UNCHANGED create

\* Mutant: the buttons of the systems stay enabled while modules load.
handleOsChangeAnytime(os) == Asks([setup EXCEPT !.override = os, !.isLoading = TRUE], "modules", os)

handleOsChange(os) ==
  /\ ~setup.isLoading
  /\ Asks([setup EXCEPT !.override = os, !.isLoading = TRUE], "modules", os)
\* reloadModulesForOS after its await.
ModulesLoaded(c) ==
  /\ Resolved(c, "modules")
  /\ Loads([setup EXCEPT !.listed = net[c].res, !.selected = net[c].res,
              !.profile = "full", !.isLoading = FALSE, !.crossed = FALSE], Without(net, c))

\* Mutant: only a successful reload ends the loading state.
ModulesFailLoading(c) ==
  /\ Rejected(c, "modules")
  /\ Loads([setup EXCEPT !.error = TRUE], Without(net, c))

ModulesFail(c) ==
  /\ Rejected(c, "modules")
  /\ Loads([setup EXCEPT !.error = TRUE, !.isLoading = FALSE], Without(net, c))

\* What the panels show: the matches of the search, in open categories.
Found   == IF setup.query = None THEN setup.listed ELSE setup.listed \cap Matches[setup.query]
Visible == IF setup.isLoading THEN {} ELSE {m \in Found : CategoryOf[m] \notin setup.collapsed}

search(q)           == setup.query # q /\ OnSetup([setup EXCEPT !.query = q])
toggleCategory(cat) == /\ ~setup.isLoading /\ \E m \in Found : CategoryOf[m] = cat
                       /\ OnSetup([setup EXCEPT !.collapsed = IF cat \in @ THEN @ \ {cat} ELSE @ \cup {cat}])

toggleModule(m) ==
  /\ m \in Visible
  /\ OnSetup([setup EXCEPT !.profile = None, !.selected = IF m \in @ THEN @ \ {m} ELSE @ \cup {m}])

\* ALL and NONE of a category shown: all its modules, found or not.
In(cat) == {m \in setup.listed : CategoryOf[m] = cat}
HasPanel(cat) == ~setup.isLoading /\ \E m \in Found : CategoryOf[m] = cat
selectCategory(cat) == HasPanel(cat) /\ OnSetup([setup EXCEPT !.profile = None, !.selected = @ \cup In(cat)])
clearCategory(cat)  == HasPanel(cat) /\ OnSetup([setup EXCEPT !.profile = None, !.selected = @ \ In(cat)])

\* The profile buttons stay enabled while modules are loading.
applyFull       == setup.profiles /\ OnSetup([setup EXCEPT !.profile = "full", !.selected = setup.listed,
                                                          !.crossed = FALSE])
applyProfile(p) == setup.profiles /\ Asks(setup, "profile", <<p, activeOS>>)
\* The answer is taken whichever system is lit by now.
ProfileLoaded(c) ==
  /\ Resolved(c, "profile")
  /\ Loads([setup EXCEPT !.profile = net[c].arg[1], !.selected = net[c].res,
              !.crossed = net[c].arg[2] # activeOS], Without(net, c))
ProfileFails(c) == Rejected(c, "profile") /\ Loads([setup EXCEPT !.error = TRUE], Without(net, c))

DevicesShown    == Cardinality(setup.devices) > 1
toggleDevice(d) == DevicesShown /\ d \in setup.devices
                   /\ OnSetup([setup EXCEPT !.ticked = IF d \in @ THEN @ \ {d} ELSE @ \cup {d}])
tickAll  == DevicesShown /\ OnSetup([setup EXCEPT !.ticked = setup.devices])
tickNone == DevicesShown /\ OnSetup([setup EXCEPT !.ticked = {}])

-----------------------------------------------------------------------------
(* Handing over.                                                           *)

CollectEnabled == page = "setup" /\ ~IsViewer /\ setup.selected # {} /\ ~setup.isLoading
handleStartCollection ==
  /\ CollectEnabled
  /\ nav' = [modules |-> setup.selected, os |-> activeOS,
             agents |-> IF setup.ticked # setup.devices THEN setup.ticked ELSE None]
  /\ Mount("collect", Orphaned(net))
  /\ UNCHANGED <<backend, visits, faults>>

\* The start request of CollectionExecution: its body has the modules, the
\* profile and the system; without agent_ids the server takes the devices
\* among the incident's targets.
StartCollection ==
  /\ page = "collect" /\ inc = "PENDING" /\ nav.modules \subseteq ModulesOf[nav.os]
  /\ inc' = "COLLECTION_IN_PROGRESS" /\ jobs' = Targeted
  /\ UNCHANGED <<targets, client, net, faults>>

-----------------------------------------------------------------------------
ServeError(c) ==
  /\ net[c].st = "sent" /\ faults < MaxFaults /\ faults' = faults + 1
  /\ Serve(c, FALSE, Nothing)
  /\ UNCHANGED <<backend, client>>

Choosing ==
  \/ \E o \in OS : handleOsChange(o)
  \/ \E q \in Query \cup {None} : search(q)
  \/ \E cat \in Category : toggleCategory(cat) \/ selectCategory(cat) \/ clearCategory(cat)
  \/ \E m \in Module : toggleModule(m)
  \/ applyFull \/ \E p \in Profile : applyProfile(p)
  \/ \E d \in Device : toggleDevice(d)
  \/ tickAll \/ tickNone
Filling ==
  \/ \E h \in Host : removeEndpoint(h) \/ \E capitals \in BOOLEAN : addEndpoint(h, capitals)
  \/ chooseType \/ enterOperator \/ clearTemplate \/ handleCreate
Served(c)    == ServeCreate(c) \/ ServeRead(c)
Continued(c) ==
  \/ Created(c) \/ CreateFails(c)
  \/ GotIncident(c) \/ GotDevices(c) \/ GotLists(c) \/ GotTargets(c) \/ LoadFails(c)
  \/ ModulesLoaded(c) \/ ModulesFail(c) \/ ProfileLoaded(c) \/ ProfileFails(c)
Retries(c) == Again(c) /\ UNCHANGED <<backend, client>>
Breaks(c)  == (Lose(c) \/ TimeOut(c)) /\ UNCHANGED <<backend, client>>

Next ==
  \/ Leave \/ Return \/ Filling \/ Choosing \/ handleStartCollection \/ StartCollection
  \/ \E c \in Slot : Served(c) \/ Continued(c) \/ Retries(c) \/ Breaks(c) \/ ServeError(c)

Spec == Init /\ [][Next]_vars

\* The server answers and the code after an await runs.
FairSpec == Spec /\ \A c \in Slot : WF_vars(Served(c) \/ Continued(c) \/ Retries(c))

-----------------------------------------------------------------------------
(* Properties.                                                             *)

Settled == page = "setup" /\ ~setup.isLoading /\ ~setup.error

\* The modules listed are those of the operating system whose button is lit,
\* in whatever order the reloads were asked for and answered.
ListedFitsOS == Settled => setup.listed = ModulesOf[activeOS]

\* While the full profile is lit, every module listed is selected and no other.
FullMeansAll == Settled /\ setup.profile = "full" => setup.selected = setup.listed

\* Only modules of the system that is lit are selected, and so handed over with
\* it, except after a profile's answer that was asked for under another one.
SelectionFitsOS == Settled => setup.selected \subseteq ModulesOf[activeOS] \/ setup.crossed

\* The lit buttons, the list and the selection of the setup page agree, however
\* loads, profiles, searches and clicks crossed (CollectionSetup.tsx 152-237).
\* The exception is the code's: applyProfile commits a late answer without a look
\* at activeOS, and handleStartCollection then sends modules that the server
\* refuses for that system, which its comment (258-260) means to avoid.
ChoiceFitsOS == ListedFitsOS /\ FullMeansAll /\ SelectionFitsOS

\* The setup page does not stay in its loading state.
LoadSettles == (page = "setup" /\ setup.isLoading) ~> (page # "setup" \/ ~setup.isLoading)
=============================================================================
