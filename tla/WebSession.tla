----------------------------- MODULE WebSession -----------------------------
(***************************************************************************)
(* The session of the web client: the login page, the route guards, the    *)
(* request function every page calls, and logging out, in several tabs of  *)
(* one browser.  The tabs share the cookie that authenticates a request;   *)
(* what a tab shows and guards its routes with is in its own session       *)
(* storage.  Every failed request is sent a second time, whatever it was.  *)
(***************************************************************************)
EXTENDS Naturals, FiniteSets

CONSTANTS
  Tab, User,
  Role,           \* the role of each user
  Page,           \* the pages behind ProtectedRoute
  RolesOf,        \* the roles RoleRoute lets into each page
  None,
  MaxFailed,      \* max_failed_logins of the system settings
  MaxSubmits,     \* bound: how often login forms are submitted
  MaxFaults       \* bound: lost or failed answers, timeouts and reloads

ASSUME SessionAssumption ==
  /\ Role \in [User -> {"admin", "operator", "viewer"}]
  /\ RolesOf \in [Page -> SUBSET {"admin", "operator", "viewer"}]
  /\ "dashboard" \in Page /\ "login" \notin Page
  /\ \A u \in User : Role[u] \in RolesOf["dashboard"]
  /\ None \notin Page /\ None \notin User
  /\ MaxFailed \in Nat \ {0} /\ MaxSubmits \in Nat /\ MaxFaults \in Nat

VARIABLES
  \* server
  issued,         \* sessions handed out so far, numbered from 1
  owner,          \* whose each of them is
  revoked,        \* sessions ended by logging out
  expired,        \* sessions past their expiry
  failures,       \* recorded login failures of each user
  \* browser
  cookie,         \* the session in the cookie, 0 without one
  \* per tab
  path,           \* the mounted route
  stored,         \* dfir_session in sessionStorage
  phase,          \* where the login page is
  form,           \* submitted user, whether the password is right, the session got
  from,           \* location.state.from of the login page
  req,            \* the requests in flight, by purpose
  \* bounds
  submits, faults

server == <<issued, owner, revoked, expired, failures>>
tabs   == <<path, stored, phase, form, from>>
counts == <<submits, faults>>
vars   == <<server, cookie, tabs, req, counts>>

MAX_RETRIES == 2
Purpose  == {"login", "me", "page", "logout"}
Session  == 1..(MAX_RETRIES * MaxSubmits)
Stored   == [user : User, role : {"admin", "operator", "viewer"}, tok : Session]
NoAuth   == [user |-> None, role |-> None, tok |-> 0]
Phase    == {"away", "boot", "form", "posting", "success", "me", "granted"}
Answer   == {"ok", "401", "error", "busy"}
Request  == [st : {"none", "ready", "sent", "answered", "lost", "timeout", "ok", "failed"},
             attempt : 0..(MAX_RETRIES - 1), timer : BOOLEAN,
             tok : Session \cup {0}, ans : Answer \cup {"none"}, execs : 0..MAX_RETRIES]
Idle     == [st |-> "none", attempt |-> 0, timer |-> FALSE, tok |-> 0, ans |-> "none", execs |-> 0]

TypeOK ==
  /\ issued \in Session \cup {0}
  /\ owner \in [Session -> User \cup {None}]
  /\ revoked \in SUBSET Session /\ expired \in SUBSET Session
  /\ failures \in [User -> 0..MaxFailed]
  /\ cookie \in Session \cup {0}
  /\ path \in [Tab -> Page \cup {"login"}]
  /\ stored \in [Tab -> Stored \cup {NoAuth}]
  /\ phase \in [Tab -> Phase]
  /\ form \in [Tab -> [user : User \cup {None}, right : BOOLEAN, tok : Session \cup {0}]]
  /\ from \in [Tab -> Page \cup {None}]
  /\ req \in [Tab -> [Purpose -> Request]]
  /\ submits \in 0..MaxSubmits /\ faults \in 0..MaxFaults

NoForm == [user |-> None, right |-> FALSE, tok |-> 0]

Init ==
  /\ issued = 0 /\ owner = [s \in Session |-> None]
  /\ revoked = {} /\ expired = {} /\ failures = [u \in User |-> 0]
  /\ cookie = 0
  /\ path = [t \in Tab |-> "login"] /\ stored = [t \in Tab |-> NoAuth]
  /\ phase = [t \in Tab |-> "boot"] /\ form = [t \in Tab |-> NoForm]
  /\ from = [t \in Tab |-> None]
  /\ req = [t \in Tab |-> [k \in Purpose |-> Idle]]
  /\ submits = 0 /\ faults = 0

-----------------------------------------------------------------------------
(* auth.ts and the guards of App.tsx.                                      *)

isSessionValid(s) == s # NoAuth /\ s.tok \notin expired

\* Where ProtectedRoute and RoleRoute send a tab that asks for page p.
Guarded(s, p) == CASE ~isSessionValid(s) -> "login"
                   [] isSessionValid(s) /\ s.role \in RolesOf[p] -> p
                   [] OTHER -> "dashboard"

setStoredAuth(t, s) == stored' = [stored EXCEPT ![t] = s]
clearStoredAuth(t)  == setStoredAuth(t, NoAuth)

\* Render what the guards allow; the login page starts with its boot screen.
Show(t, s, p) ==
  LET q == Guarded(s, p) IN
  /\ path' = [path EXCEPT ![t] = q]
  /\ phase' = [phase EXCEPT ![t] = IF q = "login" THEN "boot" ELSE "away"]
  /\ from' = [from EXCEPT ![t] = IF q = "login" THEN p ELSE None]
  /\ form' = [form EXCEPT ![t] = NoForm]

\* A document load of /login: everything in the tab's memory is gone.
LoadLogin(t) ==
  /\ path' = [path EXCEPT ![t] = "login"]
  /\ phase' = [phase EXCEPT ![t] = "boot"]
  /\ from' = [from EXCEPT ![t] = None]
  /\ form' = [form EXCEPT ![t] = NoForm]
  /\ req' = [req EXCEPT ![t] = [k \in Purpose |-> Idle]]

-----------------------------------------------------------------------------
(* request() of api.ts.                                                    *)

Set(t, k, r) == req' = [req EXCEPT ![t][k] = r]
Enter(t, p)  == phase' = [phase EXCEPT ![t] = p]
Busy(r)      == r.st \notin {"none", "ok", "failed"}

\* The first fetch, with the timer set: the cookie of this moment goes along.
Begin(t, k) == Set(t, k, [Idle EXCEPT !.st = "sent", !.timer = TRUE, !.tok = cookie])

\* The fetch of the second attempt, after the pause.
Fetch(t, k) ==
  /\ req[t][k].st = "ready"
  /\ Set(t, k, [req[t][k] EXCEPT !.st = "sent", !.tok = cookie])
  /\ UNCHANGED <<server, cookie, tabs, counts>>

Failing(r)  == r.st \in {"lost", "timeout"} \/ (r.st = "answered" /\ r.ans # "ok")
\* Mutant: logout() clears the session and does not navigate.
NeverLeaves(t,r) == FALSE
\* logout("expired") loads the login page, unless the tab is there already.
Leaves(t,r) == r.st = "answered" /\ r.ans = "401" /\ path[t] # "login"
LastTry(r)  == r.st = "timeout" \/ r.attempt = MAX_RETRIES - 1

\* Any error but a timeout is tried again after a pause, without a timer.
\* A 401 clears the stored session first.
Retry(t, k) ==
  LET r == req[t][k] IN
  /\ Failing(r) /\ ~Leaves(t, r) /\ ~LastTry(r)
  /\ Set(t, k, [r EXCEPT !.st = "ready", !.attempt = @ + 1, !.timer = FALSE, !.tok = 0, !.ans = "none"])
  /\ IF r.ans = "401" THEN clearStoredAuth(t) ELSE UNCHANGED stored
  /\ UNCHANGED <<server, cookie, path, phase, form, from, counts>>

\* 401 on a page: the session is cleared and the login page loaded.
Expelled(t, k) ==
  /\ Leaves(t, req[t][k])
  /\ clearStoredAuth(t) /\ LoadLogin(t)
  /\ UNCHANGED <<server, cookie, counts>>

\* The promise is rejected; what the stored session becomes is said by the caller.
Rejects(t, k) == Failing(req[t][k]) /\ ~Leaves(t, req[t][k]) /\ LastTry(req[t][k])
AfterReject(t, k) == IF req[t][k].ans = "401" THEN NoAuth ELSE stored[t]
Resolves(t, k) == req[t][k].st = "answered" /\ req[t][k].ans = "ok"

Fault == faults < MaxFaults /\ faults' = faults + 1 /\ UNCHANGED submits

\* The connection breaks, before or after the server did its work.  That the
\* server gets to a request only after the client gave it up is left out, here
\* and in TimeOut.
Lose(t, k) ==
  /\ req[t][k].st \in {"sent", "answered"}
  /\ Fault
  /\ Set(t, k, [req[t][k] EXCEPT !.st = "lost", !.ans = "none"])
  /\ UNCHANGED <<server, cookie, tabs>>

\* The timer of the first attempt aborts the fetch: 408, never tried again.
TimeOut(t, k) ==
  /\ req[t][k].timer /\ req[t][k].st \in {"sent", "answered"}
  /\ Fault
  /\ Set(t, k, [req[t][k] EXCEPT !.st = "timeout", !.ans = "none"])
  /\ UNCHANGED <<server, cookie, tabs>>

-----------------------------------------------------------------------------
(* The server: login, users/me, logout and any call of a page.             *)

Live(s)      == s # 0 /\ s \notin revoked /\ s \notin expired
Reply(t,k,a) == Set(t, k, [req[t][k] EXCEPT !.st = "answered", !.ans = a])
Done(t,k,a)  == Set(t, k, [req[t][k] EXCEPT !.st = "answered", !.ans = a, !.execs = @ + 1])
Capped(n)    == IF n < MaxFailed THEN n + 1 ELSE n

\* Failures are recorded for blocked attempts, too.
ServeLogin(t) ==
  LET u == form[t].user
      locked == failures[u] >= MaxFailed
  IN
  /\ req[t]["login"].st = "sent"
  /\ IF locked \/ ~form[t].right
     THEN /\ failures' = [failures EXCEPT ![u] = Capped(@)]
          /\ Reply(t, "login", IF locked THEN "error" ELSE "401")
          /\ UNCHANGED <<issued, owner>>
     ELSE /\ issued' = issued + 1
          /\ owner' = [owner EXCEPT ![issued + 1] = u]
          /\ Set(t, "login", [req[t]["login"] EXCEPT !.st = "answered", !.ans = "ok", !.tok = issued + 1])
          /\ UNCHANGED failures
  /\ UNCHANGED <<revoked, expired, cookie, tabs, counts>>

ServeMe(t) ==
  /\ req[t]["me"].st = "sent"
  /\ Reply(t, "me", IF Live(req[t]["me"].tok) THEN "ok" ELSE "401")
  /\ UNCHANGED <<server, cookie, tabs, counts>>

ServePage(t) ==
  /\ req[t]["page"].st = "sent"
  /\ IF Live(req[t]["page"].tok) THEN Done(t, "page", "ok") ELSE Reply(t, "page", "401")
  /\ UNCHANGED <<server, cookie, tabs, counts>>

ServeLogout(t) ==
  LET s == req[t]["logout"].tok IN
  /\ req[t]["logout"].st = "sent"
  /\ IF Live(s) THEN Reply(t, "logout", "ok") /\ revoked' = revoked \cup {s}
                ELSE Reply(t, "logout", "401") /\ UNCHANGED revoked
  /\ UNCHANGED <<issued, owner, expired, failures, cookie, tabs, counts>>

\* 429 or 503 before the handler, or an error of the handler.
ServeError(t, k) ==
  /\ req[t][k].st = "sent"
  /\ Fault
  /\ \E a \in {"busy", "error"} : Reply(t, k, a)
  /\ UNCHANGED <<server, cookie, tabs>>

Expire(s) ==
  /\ s \in 1..issued /\ s \notin expired
  /\ expired' = expired \cup {s}
  /\ UNCHANGED <<issued, owner, revoked, failures, cookie, tabs, req, counts>>

-----------------------------------------------------------------------------
(* Login.tsx.                                                              *)

BootScreen(t)    == phase[t] = "boot"
LoginScreen(t)   == phase[t] = "form"      \* with a form that can be submitted
GrantedScreen(t) == phase[t] = "granted"

\* The boot screen has played its messages.
BootDone(t) ==
  /\ BootScreen(t) /\ Enter(t, "form")
  /\ UNCHANGED <<server, cookie, path, stored, form, from, req, counts>>

\* handleLogin: the form is disabled, the messages play, the form is posted.
handleLogin(t, u, right) ==
  /\ LoginScreen(t) /\ submits < MaxSubmits
  /\ form' = [form EXCEPT ![t] = [user |-> u, right |-> right, tok |-> 0]]
  /\ submits' = submits + 1
  /\ Enter(t, "posting") /\ Begin(t, "login")
  /\ UNCHANGED <<server, cookie, path, stored, from, faults>>

\* The response sets the cookie and the tab remembers who it is.
LoginOk(t) ==
  LET s == req[t]["login"].tok IN
  /\ Resolves(t, "login")
  /\ cookie' = s
  /\ setStoredAuth(t, [user |-> owner[s], role |-> Role[owner[s]], tok |-> s])
  /\ form' = [form EXCEPT ![t].tok = s]
  /\ Enter(t, "success") /\ Set(t, "login", Idle)
  /\ UNCHANGED <<server, path, from, counts>>

\* The failure messages play and the dialog opens over an enabled form.
LoginFails(t) ==
  /\ Rejects(t, "login")
  /\ clearStoredAuth(t)
  /\ form' = [form EXCEPT ![t] = NoForm]
  /\ Enter(t, "form") /\ Set(t, "login", Idle)
  /\ UNCHANGED <<server, cookie, path, from, counts>>

SuccessPlayed(t) ==
  /\ phase[t] = "success" /\ Enter(t, "me")
  /\ Begin(t, "me")
  /\ UNCHANGED <<server, cookie, path, stored, form, from, counts>>

\* Mutant: the expiry is taken from the answer of users/me, which has none.
MeOkWithoutExpiry(t) ==
  LET u == owner[req[t]["me"].tok] IN
  /\ Resolves(t, "me")
  /\ setStoredAuth(t, [user |-> u, role |-> Role[u], tok |-> 0])
  /\ Enter(t, "granted") /\ Set(t, "me", Idle)
  /\ UNCHANGED <<server, cookie, path, form, from, counts>>

\* users/me answers for the cookie; its expiry stays that of the login.
MeOk(t) ==
  LET u == owner[req[t]["me"].tok] IN
  /\ Resolves(t, "me")
  /\ setStoredAuth(t, [user |-> u, role |-> Role[u], tok |-> form[t].tok])
  /\ Enter(t, "granted") /\ Set(t, "me", Idle)
  /\ UNCHANGED <<server, cookie, path, form, from, counts>>

MeFails(t) ==
  /\ Rejects(t, "me")
  /\ setStoredAuth(t, AfterReject(t, "me"))
  /\ Enter(t, "granted") /\ Set(t, "me", Idle)
  /\ UNCHANGED <<server, cookie, path, form, from, counts>>

\* The countdown of the success screen has run down.
Redirect(t) ==
  /\ GrantedScreen(t)
  /\ Show(t, stored[t], IF from[t] = None THEN "dashboard" ELSE from[t])
  /\ UNCHANGED <<server, cookie, stored, req, counts>>

-----------------------------------------------------------------------------
(* Pages, their calls, and logging out.                                    *)

\* A link, a navigation button or the command palette.
Open(t, p) ==
  /\ path[t] # "login" /\ path[t] # p
  /\ Show(t, stored[t], p)
  /\ UNCHANGED <<server, cookie, stored, req, counts>>

\* AppLayout and every page call the API when mounted, some pages again on every
\* poll, and others only when the user does something.
PageCall(t) ==
  /\ path[t] # "login" /\ ~Busy(req[t]["page"])
  /\ Begin(t, "page")
  /\ UNCHANGED <<server, cookie, tabs, counts>>

\* Mutant: response.ok is not looked at.
PageOkUnchecked(t) ==
  /\ req[t]["page"].st = "answered" /\ req[t]["page"].ans # "401"
  /\ Set(t, "page", [req[t]["page"] EXCEPT !.st = "ok", !.timer = FALSE])
  /\ UNCHANGED <<server, cookie, tabs, counts>>

PageOk(t) ==
  /\ Resolves(t, "page")
  /\ Set(t, "page", [req[t]["page"] EXCEPT !.st = "ok", !.timer = FALSE])
  /\ UNCHANGED <<server, cookie, tabs, counts>>

PageFails(t) ==
  /\ Rejects(t, "page")
  /\ setStoredAuth(t, AfterReject(t, "page"))
  /\ Set(t, "page", [req[t]["page"] EXCEPT !.st = "failed", !.timer = FALSE])
  /\ UNCHANGED <<server, cookie, path, phase, form, from, counts>>

\* The call is not awaited: the tab is at the login page while it runs.
handleLogout(t) ==
  /\ path[t] # "login" /\ ~Busy(req[t]["logout"])
  /\ clearStoredAuth(t)
  /\ Begin(t, "logout")
  /\ path' = [path EXCEPT ![t] = "login"]
  /\ Enter(t, "boot")
  /\ UNCHANGED <<server, cookie, form, from, counts>>

\* The response deletes the cookie by its name, whosever it has become.
LogoutOk(t) ==
  /\ Resolves(t, "logout")
  /\ cookie' = 0
  /\ Set(t, "logout", Idle)
  /\ UNCHANGED <<server, tabs, counts>>

LogoutFails(t) ==
  /\ Rejects(t, "logout")
  /\ setStoredAuth(t, AfterReject(t, "logout"))
  /\ Set(t, "logout", Idle)
  /\ UNCHANGED <<server, cookie, path, phase, form, from, counts>>

\* The user reloads the tab: memory is lost, sessionStorage is not.
Reload(t) ==
  /\ Fault
  /\ IF path[t] = "login" THEN LoadLogin(t)
     ELSE /\ Show(t, stored[t], path[t])
          /\ req' = [req EXCEPT ![t] = [k \in Purpose |-> Idle]]
  /\ UNCHANGED <<server, cookie, stored>>

-----------------------------------------------------------------------------
Wire(t, k) == Fetch(t, k) \/ Retry(t, k) \/ Expelled(t, k)

\* The three sequential activities of a tab, each with the server's part.
LoginSide(t) ==
  \/ BootDone(t) \/ LoginOk(t) \/ LoginFails(t) \/ SuccessPlayed(t) \/ MeOk(t) \/ MeFails(t)
  \/ Redirect(t) \/ ServeLogin(t) \/ ServeMe(t) \/ Wire(t, "login") \/ Wire(t, "me")
PageSide(t)   == PageOk(t) \/ PageFails(t) \/ ServePage(t) \/ Wire(t, "page")
LogoutSide(t) == LogoutOk(t) \/ LogoutFails(t) \/ ServeLogout(t) \/ Wire(t, "logout")

Next ==
  \/ \E t \in Tab : LoginSide(t) \/ PageSide(t) \/ LogoutSide(t)
                  \/ PageCall(t) \/ Reload(t) \/ handleLogout(t)
  \/ \E t \in Tab, u \in User, right \in BOOLEAN : handleLogin(t, u, right)
  \/ \E t \in Tab, p \in Page : Open(t, p)
  \/ \E t \in Tab, k \in Purpose : Lose(t, k) \/ TimeOut(t, k) \/ ServeError(t, k)
  \/ \E s \in Session : Expire(s)

Spec == Init /\ [][Next]_vars

\* The server answers what it receives, the browser runs the continuations
\* and fires timers.  That a page calls again is not assumed: many do not poll.
Fairness == \A t \in Tab : WF_vars(LoginSide(t)) /\ WF_vars(PageSide(t))

FairSpec == Spec /\ Fairness

-----------------------------------------------------------------------------
(* Properties.                                                             *)

\* What a page may rely on: its call is executed at most twice and, when it
\* resolves, at least once.
Promise(r) == IF Busy(r) THEN "pending" ELSE r.st
Api == INSTANCE ApiCall WITH Caller <- Tab,
         call <- [t \in Tab |-> Promise(req[t]["page"])],
         execs <- [t \in Tab |-> req[t]["page"].execs]
ImplementsApiCall == Api!Spec

\* A call of a page that takes a dead session to the server, once nothing is lost
\* any more.
DeadCall(t) ==
  /\ path[t] # "login" /\ faults = MaxFaults
  /\ \/ req[t]["page"].st = "sent"  /\ ~Live(req[t]["page"].tok)
     \/ req[t]["page"].st = "ready" /\ ~Live(cookie)

\* One such call is enough to send the tab to the login page, unless the browser
\* gets a new session meanwhile.  A page that makes no call stays.
DeadCallLeaves ==
  \A t \in Tab : DeadCall(t) ~> (path[t] = "login" \/ Live(cookie))

\* A submitted login form becomes usable again or leads to a page.
LoginSettles ==
  \A t \in Tab : (phase[t] = "posting") ~> (phase[t] = "form" \/ phase[t] = "away" \/ phase[t] = "boot")

\* Nobody is left where nothing can be done: neither on a protected page whose
\* calls the server refuses (api.ts 68), whichever attempt the refusal meets, nor
\* on a login form that stays disabled (Login.tsx 790), whatever fails in between.
NeverStuck == DeadCallLeaves /\ LoginSettles
=============================================================================
