-------------------------- MODULE WebSessionProofs --------------------------
(***************************************************************************)
(* The session of the web client, for any number of tabs, users and pages: *)
(* every state is one of its type, and a call of a page is what ApiCall    *)
(* promises.                                                               *)
(***************************************************************************)
EXTENDS WebSession, FiniteSetTheorems, TLAPS

-----------------------------------------------------------------------------
(* The inductive invariant.                                                *)

Form  == [user : User \cup {None}, right : BOOLEAN, tok : Session \cup {0}]
Calls == [Purpose -> Request]

Good(r) == r.st = "answered" /\ r.ans = "ok"

\* A good answer to a page's call says that it was executed, and a call is not
\* executed twice in one attempt.
PageFit(r) ==
  /\ Good(r) => r.execs > 0
  /\ r.st = "none" => r.execs = 0
  /\ r.execs <= r.attempt + IF r.st \in {"none", "ready", "sent"} THEN 0 ELSE 1

\* The form is posted and users/me asked in the phases named for it, and the
\* sessions that the form and the requests hold are among the n issued.
TabFit(n, p, ph, fo, rq) ==
  /\ p = "login" <=> ph # "away"
  /\ fo.tok \in 0..n /\ \A k \in Purpose : rq[k].tok \in 0..n
  /\ rq["login"].st # "none" => ph = "posting"
  /\ rq["me"].st # "none" => ph = "me"
  /\ ph = "posting" => fo.user \in User
  /\ ph \in {"success", "me"} => fo.tok # 0
  /\ Good(rq["login"]) => rq["login"].tok # 0
  /\ Good(rq["me"]) => rq["me"].tok # 0
  /\ PageFit(rq["page"])
TabsFit == \A t \in Tab : TabFit(issued, path[t], phase[t], form[t], req[t])

SessionsOwned == cookie \in 0..issued /\ \A s \in 1..issued : owner[s] \in User

\* How often a login that was submitted may still be answered with a session.
Chances(r) == CASE r.st \in {"ready", "sent"} -> MAX_RETRIES - r.attempt
                [] r.st \in {"answered", "lost", "timeout"} -> MAX_RETRIES - 1 - r.attempt
                [] OTHER -> 0
Pending == {p \in Tab \X (1..MAX_RETRIES) : p[2] <= Chances(req[p[1]]["login"])}

\* No more sessions are handed out than logins are sent.
SessionsBounded == /\ IsFiniteSet(Pending)
                   /\ issued + Cardinality(Pending) <= MAX_RETRIES * submits

SessionInv == TypeOK /\ SessionsOwned /\ TabsFit /\ SessionsBounded

-----------------------------------------------------------------------------
(* Requests.                                                               *)

LEMMA IdleType == /\ Idle \in Request /\ Idle.st = "none" /\ Idle.tok = 0 /\ Idle.execs = 0
                  /\ Idle.attempt = 0 /\ Idle.ans = "none" /\ Idle.timer = FALSE
BY DEF Idle, Request, Answer, MAX_RETRIES

Sent == [Idle EXCEPT !.st = "sent", !.timer = TRUE, !.tok = cookie]

LEMMA SentType ==
  ASSUME cookie \in Session \cup {0}
  PROVE  /\ Sent \in Request /\ Sent.st = "sent" /\ Sent.tok = cookie /\ Sent.execs = 0
         /\ Sent.attempt = 0
<1> DEFINE i1 == [Idle EXCEPT !.st = "sent"]
           i2 == [i1 EXCEPT !.timer = TRUE]
<1>1. /\ i1 \in Request /\ i1.st = "sent" /\ i1.execs = 0 /\ i1.attempt = 0
  BY IdleType DEF Request
<1> HIDE DEF i1
<1>2. /\ i2 \in Request /\ i2.st = "sent" /\ i2.execs = 0 /\ i2.attempt = 0
  BY <1>1 DEF Request
<1>3. Sent = [i2 EXCEPT !.tok = cookie]
  BY DEF Sent, i1
<1> HIDE DEF i2
<1> QED
  BY <1>2, <1>3 DEF Request

\* The number of chances of a request, by where it is.
LEMMA ChancesType ==
  ASSUME NEW r \in Request
  PROVE  /\ Chances(r) \in 0..MAX_RETRIES
         /\ r.st \in {"ready", "sent"} => Chances(r) = MAX_RETRIES - r.attempt /\ Chances(r) > 0
         /\ r.st \in {"answered", "lost", "timeout"} => Chances(r) = MAX_RETRIES - 1 - r.attempt
         /\ r.st = "none" => Chances(r) = 0
BY DEF Chances, Request, MAX_RETRIES

TabTypes(p, s, ph, fo, fr, rq) ==
  /\ p \in Page \cup {"login"} /\ s \in Stored \cup {NoAuth} /\ ph \in Phase
  /\ fo \in Form /\ fr \in Page \cup {None} /\ rq \in Calls

\* What the server and the counters have to be after a step.
ServerTypes ==
  /\ issued \in Session \cup {0} /\ owner \in [Session -> User \cup {None}]
  /\ revoked \in SUBSET Session /\ expired \in SUBSET Session
  /\ failures \in [User -> 0..MaxFailed] /\ cookie \in Session \cup {0}
  /\ submits \in 0..MaxSubmits /\ faults \in 0..MaxFaults

LEMMA TypeParts ==
  TypeOK => ServerTypes /\ \A t \in Tab : TabTypes(path[t], stored[t], phase[t], form[t], from[t], req[t])
BY DEF TypeOK, ServerTypes, TabTypes, Form, Calls

TabBecomes(t, p, s, ph, fo, fr, rq) ==
  /\ path' = [path EXCEPT ![t] = p] /\ stored' = [stored EXCEPT ![t] = s]
  /\ phase' = [phase EXCEPT ![t] = ph] /\ form' = [form EXCEPT ![t] = fo]
  /\ from' = [from EXCEPT ![t] = fr] /\ req' = [req EXCEPT ![t] = rq]

\* A step of one tab, on which the server may have handed out another session.
LEMMA TabStep ==
  ASSUME SessionInv, NEW t \in Tab, NEW p, NEW s, NEW ph, NEW fo, NEW fr, NEW rq,
         TabTypes(p, s, ph, fo, fr, rq), TabFit(issued', p, ph, fo, rq), ServerTypes',
         SessionsOwned', SessionsBounded', issued <= issued',
         TabBecomes(t, p, s, ph, fo, fr, rq)
  PROVE  SessionInv'
<1>1. TypeOK /\ TabsFit /\ issued \in Nat /\ issued' \in Nat
  BY DEF SessionInv, TypeOK, ServerTypes, Session
<1>2. TypeOK'
  BY <1>1 DEF TypeOK, ServerTypes, TabTypes, Form, Calls, TabBecomes
<1>3. ASSUME NEW u \in Tab PROVE TabFit(issued, path[u], phase[u], form[u], req[u])'
  <2>1. CASE u = t
    <3>1. path'[u] = p /\ phase'[u] = ph /\ form'[u] = fo /\ req'[u] = rq
      BY <1>1, <2>1 DEF TypeOK, TabBecomes
    <3> QED
      BY <3>1
  <2>2. CASE u # t
    <3>1. path'[u] = path[u] /\ phase'[u] = phase[u] /\ form'[u] = form[u] /\ req'[u] = req[u]
      BY <1>1, <2>2 DEF TypeOK, TabBecomes
    <3>2. TabFit(issued, path[u], phase[u], form[u], req[u])
      BY <1>1 DEF TabsFit
    <3>3. 0..issued \subseteq 0..issued'
      BY <1>1
    <3> QED
      BY <3>1, <3>2, <3>3 DEF TabFit
  <2> QED
    BY <2>1, <2>2
<1>4. TabsFit'
  BY <1>3 DEF TabsFit
<1> QED
  BY <1>2, <1>4 DEF SessionInv

\* The bound is kept when no login gains a chance.
LEMMA BoundKept ==
  ASSUME SessionInv, NEW t \in Tab, NEW rq \in Calls, req' = [req EXCEPT ![t] = rq],
         Chances(rq["login"]) <= Chances(req[t]["login"]), issued' = issued, submits' = submits
  PROVE  SessionsBounded'
<1>1. req \in [Tab -> Calls] /\ "login" \in Purpose
  BY DEF SessionInv, TypeOK, Calls, Purpose
<1>2. \A u \in Tab : /\ Chances(req[u]["login"]) \in 0..MAX_RETRIES
                     /\ Chances(req'[u]["login"]) \in 0..MAX_RETRIES
                     /\ Chances(req'[u]["login"]) <= Chances(req[u]["login"])
  <2> SUFFICES ASSUME NEW u \in Tab
               PROVE  /\ Chances(req[u]["login"]) \in 0..MAX_RETRIES
                      /\ Chances(req'[u]["login"]) \in 0..MAX_RETRIES
                      /\ Chances(req'[u]["login"]) <= Chances(req[u]["login"])
    OBVIOUS
  <2>1. req'[u] = IF u = t THEN rq ELSE req[u]
    BY <1>1
  <2>2. req[u]["login"] \in Request /\ req'[u]["login"] \in Request
    BY <1>1, <2>1 DEF Calls
  <2>3. Chances(req[u]["login"]) \in 0..MAX_RETRIES /\ Chances(req'[u]["login"]) \in 0..MAX_RETRIES
    BY <2>2, ChancesType
  <2>4. req'[u]["login"] = req[u]["login"] \/ (u = t /\ req'[u]["login"] = rq["login"])
    BY <2>1
  <2> QED
    BY <2>3, <2>4 DEF MAX_RETRIES
<1>3. Pending' \subseteq Pending
  BY <1>2 DEF Pending, MAX_RETRIES
<1>4. IsFiniteSet(Pending') /\ Cardinality(Pending') <= Cardinality(Pending)
  BY <1>3, FS_Subset DEF SessionInv, SessionsBounded
<1>5. Cardinality(Pending) \in Nat /\ Cardinality(Pending') \in Nat
  BY <1>4, FS_CardinalityType DEF SessionInv, SessionsBounded
<1>6. issued \in Nat /\ submits \in Nat
  BY DEF SessionInv, TypeOK, Session
<1> QED
  BY <1>4, <1>5, <1>6 DEF SessionInv, SessionsBounded, MAX_RETRIES

LEMMA InvParts ==
  ASSUME SessionInv, NEW t \in Tab
  PROVE  /\ ServerTypes /\ TabTypes(path[t], stored[t], phase[t], form[t], from[t], req[t])
         /\ TabFit(issued, path[t], phase[t], form[t], req[t])
         /\ issued \in Nat /\ submits \in Nat /\ faults \in Nat /\ faults <= MaxFaults
         /\ MaxFaults \in Nat /\ 0..issued \subseteq Session \cup {0}
<1>1. ServerTypes /\ TabTypes(path[t], stored[t], phase[t], form[t], from[t], req[t])
  BY TypeParts DEF SessionInv
<1>2. issued \in Nat /\ submits \in Nat /\ faults \in Nat /\ faults <= MaxFaults /\ MaxFaults \in Nat
  BY <1>1, SessionAssumption DEF ServerTypes, Session
<1>3. 0..issued \subseteq Session \cup {0}
  <2> DEFINE top == MAX_RETRIES * MaxSubmits
  <2>1. top \in Nat /\ issued \in 0..top
    BY <1>1, SessionAssumption DEF ServerTypes, Session, MAX_RETRIES
  <2> HIDE DEF top
  <2>2. 0..issued \subseteq 1..top \cup {0}
    BY <2>1
  <2> QED
    BY <2>2 DEF Session, top
<1> QED
  BY <1>1, <1>2, <1>3 DEF SessionInv, TabsFit

\* Nothing in the tab changes.
LEMMA Same ==
  ASSUME SessionInv, NEW t \in Tab
  PROVE  /\ path = [path EXCEPT ![t] = path[t]] /\ stored = [stored EXCEPT ![t] = stored[t]]
         /\ phase = [phase EXCEPT ![t] = phase[t]] /\ form = [form EXCEPT ![t] = form[t]]
         /\ from = [from EXCEPT ![t] = from[t]] /\ req = [req EXCEPT ![t] = req[t]]
BY DEF SessionInv, TypeOK

LEMMA SetType ==
  ASSUME SessionInv, NEW t \in Tab, NEW k \in Purpose, NEW r \in Request, Set(t, k, r)
  PROVE  \E rq \in Calls : /\ req' = [req EXCEPT ![t] = rq]
                           /\ \A l \in Purpose : rq[l] = IF l = k THEN r ELSE req[t][l]
<1> DEFINE rq == [req[t] EXCEPT ![k] = r]
<1>1. req[t] \in Calls
  BY InvParts DEF TabTypes
<1>2. rq \in Calls /\ \A l \in Purpose : rq[l] = IF l = k THEN r ELSE req[t][l]
  BY <1>1 DEF Calls
<1>3. req' = [req EXCEPT ![t] = rq]
  BY DEF Set, SessionInv, TypeOK
<1> QED
  BY <1>2, <1>3

LEMMA PurposeNames == "login" \in Purpose /\ "me" \in Purpose /\ "page" \in Purpose /\ "logout" \in Purpose
BY DEF Purpose

\* One request moves on; the tab stays where it is, its session may be cleared.
LEMMA ReqStep ==
  ASSUME SessionInv, NEW t \in Tab, NEW k \in Purpose, NEW r \in Request, Set(t, k, r),
         UNCHANGED <<issued, owner, failures, expired, submits, path, phase, form, from>>,
         NEW st \in {stored[t], NoAuth}, stored' = [stored EXCEPT ![t] = st],
         cookie' \in {cookie, 0}, revoked' \in SUBSET Session, faults' \in 0..MaxFaults,
         r.tok \in 0..issued,
         k \in {"login", "me"} => /\ r.st # "none" => req[t][k].st # "none"
                                  /\ Good(r) => r.tok # 0,
         k = "login" => Chances(r) <= Chances(req[t][k]),
         k = "page" => PageFit(r)
  PROVE  SessionInv'
<1>1. PICK rq \in Calls : /\ req' = [req EXCEPT ![t] = rq]
                          /\ \A l \in Purpose : rq[l] = IF l = k THEN r ELSE req[t][l]
  BY SetType
<1>2. /\ ServerTypes /\ TabTypes(path[t], stored[t], phase[t], form[t], from[t], req[t])
      /\ TabFit(issued, path[t], phase[t], form[t], req[t])
  BY InvParts
<1>3. TabTypes(path[t], st, phase[t], form[t], from[t], rq)
  BY <1>2 DEF TabTypes
<1>4. TabFit(issued', path[t], phase[t], form[t], rq)
  BY <1>1, <1>2, PurposeNames DEF TabFit
<1>5. ServerTypes'
  BY <1>2 DEF ServerTypes
<1>6. SessionsOwned'
  BY InvParts DEF SessionInv, SessionsOwned
<1>7. SessionsBounded'
  <2>1. rq["login"] = (IF k = "login" THEN r ELSE req[t]["login"]) /\ req[t]["login"] \in Request
    BY <1>1, <1>2, PurposeNames DEF TabTypes, Calls
  <2>2. Chances(req[t]["login"]) \in Nat
    BY <2>1, ChancesType DEF MAX_RETRIES
  <2>3. Chances(rq["login"]) <= Chances(req[t]["login"])
    BY <2>1, <2>2
  <2> QED
    BY <1>1, <2>3, BoundKept
<1>8. issued <= issued'
  BY InvParts
<1>9. TabBecomes(t, path[t], st, phase[t], form[t], from[t], rq)
  BY <1>1, Same DEF TabBecomes
<1> QED
  BY <1>3, <1>4, <1>5, <1>6, <1>7, <1>8, <1>9, TabStep

-----------------------------------------------------------------------------
(* The steps of one request.                                               *)

Stages == {"none", "ready", "sent", "answered", "lost", "timeout", "ok", "failed"}

\* An answer, a loss, the end of a call.
Moved(q, s, a) == [q EXCEPT !.st = s, !.ans = a]
EndedAs(q, s)  == [q EXCEPT !.st = s, !.timer = FALSE]

LEMMA MovesOn ==
  ASSUME NEW q \in Request, NEW s \in Stages, NEW a \in Answer \cup {"none"}
  PROVE  /\ Moved(q, s, a) \in Request /\ Moved(q, s, a).st = s /\ Moved(q, s, a).ans = a
         /\ Moved(q, s, a).tok = q.tok /\ Moved(q, s, a).attempt = q.attempt
         /\ Moved(q, s, a).execs = q.execs
BY DEF Request, Stages, Moved

LEMMA Ended ==
  ASSUME NEW q \in Request, NEW s \in {"ok", "failed"}
  PROVE  /\ EndedAs(q, s) \in Request /\ EndedAs(q, s).st = s /\ EndedAs(q, s).tok = q.tok
         /\ EndedAs(q, s).attempt = q.attempt /\ EndedAs(q, s).execs = q.execs
BY DEF Request, EndedAs

LEMMA RequestType ==
  ASSUME SessionInv, NEW t \in Tab, NEW k \in Purpose
  PROVE  /\ req[t][k] \in Request /\ req[t][k].tok \in 0..issued
         /\ k \in {"login", "me"} => (Good(req[t][k]) => req[t][k].tok # 0)
         /\ k = "page" => PageFit(req[t][k])
         /\ cookie \in 0..issued /\ cookie \in Session \cup {0}
         /\ revoked \in SUBSET Session /\ faults \in 0..MaxFaults
<1>1. ServerTypes /\ req[t] \in Calls /\ TabFit(issued, path[t], phase[t], form[t], req[t])
  BY InvParts DEF TabTypes
<1>2. cookie \in 0..issued
  BY DEF SessionInv, SessionsOwned
<1> QED
  BY <1>1, <1>2 DEF ServerTypes, Calls, TabFit

\* What a request of the page may become without being executed.
LEMMA PageFitKept ==
  ASSUME NEW q \in Request, NEW r \in Request, PageFit(q), q.st \in {"ready", "sent", "answered", "lost", "timeout"},
         r.execs = q.execs, r.attempt = q.attempt, ~Good(r), r.st # "none",
         r.st \in {"ready", "sent"} => q.st \in {"ready", "sent"}
  PROVE  PageFit(r)
<1>1. q.execs \in Nat /\ q.attempt \in Nat
  BY DEF Request, MAX_RETRIES
<1> QED
  BY <1>1 DEF PageFit

LEMMA FaultType == SessionInv /\ Fault => faults' \in 0..MaxFaults /\ submits' = submits
<1>1. SessionInv => faults \in 0..MaxFaults /\ MaxFaults \in Nat
  BY SessionAssumption DEF SessionInv, TypeOK
<1> QED
  BY <1>1 DEF Fault

\* Lost, timed out, or answered with an error.
LEMMA BreaksStep ==
  ASSUME SessionInv, NEW t \in Tab, NEW k \in Purpose, Lose(t, k) \/ TimeOut(t, k) \/ ServeError(t, k)
  PROVE  SessionInv'
<1> DEFINE q == req[t][k]
<1>1. PICK s \in {"lost", "timeout", "answered"}, a \in {"none", "busy", "error"} :
        Set(t, k, Moved(q, s, a)) /\ q.st \in {"sent", "answered"} /\ (s = "answered" <=> a # "none")
  BY DEF Lose, TimeOut, ServeError, Reply, Moved
<1>2. UNCHANGED <<server, cookie, tabs>> /\ faults' \in 0..MaxFaults /\ submits' = submits
  BY FaultType DEF Lose, TimeOut, ServeError
<1>3. /\ q \in Request /\ q.tok \in 0..issued /\ (k = "page" => PageFit(q))
      /\ revoked \in SUBSET Session
  BY RequestType
<1> DEFINE new == Moved(q, s, a)
<1> HIDE DEF q
<1>4. /\ new \in Request /\ new.st = s /\ new.ans = a /\ new.tok = q.tok
      /\ new.attempt = q.attempt /\ new.execs = q.execs
  BY <1>3, MovesOn DEF Answer, Stages
<1> HIDE DEF new
<1>5. ~Good(new)
  BY <1>4 DEF Good
<1>6. k = "page" => PageFit(new)
  BY <1>1, <1>3, <1>4, <1>5, PageFitKept
<1>7. Chances(new) <= Chances(q)
  <2>1. q.attempt \in 0..1
    BY <1>3 DEF Request, MAX_RETRIES
  <2> QED
    BY <1>1, <1>3, <1>4, <2>1, ChancesType DEF MAX_RETRIES
<1>8. stored' = [stored EXCEPT ![t] = stored[t]]
  BY <1>2, Same DEF tabs
<1>9. /\ Set(t, k, new) /\ new.tok \in 0..issued
      /\ UNCHANGED <<issued, owner, failures, expired, submits, path, phase, form, from>>
      /\ cookie' = cookie /\ revoked' \in SUBSET Session
  BY <1>1, <1>2, <1>3, <1>4 DEF server, tabs, new
<1>10. /\ new.st # "none" => req[t][k].st # "none"
       /\ Chances(new) <= Chances(req[t][k])
  BY <1>1, <1>7 DEF q
<1> QED
  BY <1>2, <1>4, <1>5, <1>6, <1>8, <1>9, <1>10, ReqStep

Refetched(q) == [q EXCEPT !.st = "sent", !.tok = cookie]
Again(q)     == [q EXCEPT !.st = "ready", !.attempt = @ + 1, !.timer = FALSE, !.tok = 0, !.ans = "none"]
Executed(q)  == [q EXCEPT !.st = "answered", !.ans = "ok", !.execs = @ + 1]

LEMMA FetchedAgain ==
  ASSUME NEW q \in Request, cookie \in Session \cup {0}
  PROVE  /\ Refetched(q) \in Request /\ Refetched(q).st = "sent" /\ Refetched(q).tok = cookie
         /\ Refetched(q).attempt = q.attempt /\ Refetched(q).execs = q.execs
BY DEF Request, Refetched

LEMMA TriedAgain ==
  ASSUME NEW q \in Request, q.attempt # MAX_RETRIES - 1
  PROVE  /\ Again(q) \in Request /\ Again(q).st = "ready" /\ Again(q).tok = 0
         /\ q.attempt = 0 /\ Again(q).attempt = 1 /\ Again(q).execs = q.execs
<1>1. q.attempt = 0 /\ 1 \in 0..(MAX_RETRIES - 1) /\ 0 + 1 = 1
  BY DEF Request, MAX_RETRIES
<1> DEFINE q1 == [q EXCEPT !.attempt = 1]
           q2 == [q1 EXCEPT !.st = "ready", !.timer = FALSE]
           q3 == [q2 EXCEPT !.tok = 0, !.ans = "none"]
<1>2. Again(q) = q3
  BY <1>1 DEF Again, Request
<1>3. q1 \in Request /\ q1.attempt = 1 /\ q1.execs = q.execs
  BY <1>1 DEF Request
<1> HIDE DEF q1
<1>4. q2 \in Request /\ q2.attempt = 1 /\ q2.execs = q.execs /\ q2.st = "ready"
  BY <1>3 DEF Request
<1> HIDE DEF q2
<1>5. /\ q3 \in Request /\ q3.attempt = 1 /\ q3.execs = q.execs /\ q3.st = "ready" /\ q3.tok = 0
  BY <1>4 DEF Request
<1> QED
  BY <1>1, <1>2, <1>5

LEMMA ExecutedOnce ==
  ASSUME NEW q \in Request, q.execs < MAX_RETRIES
  PROVE  /\ Executed(q) \in Request /\ Executed(q).st = "answered" /\ Executed(q).tok = q.tok
         /\ Executed(q).attempt = q.attempt /\ Executed(q).execs = q.execs + 1
<1> DEFINE e == q.execs + 1
           q1 == [q EXCEPT !.execs = e]
<1>1. e \in 0..MAX_RETRIES
  BY DEF Request, MAX_RETRIES
<1>2. Executed(q) = [q1 EXCEPT !.st = "answered", !.ans = "ok"]
  BY DEF Executed, Request
<1> HIDE DEF e
<1>3. q1 \in Request /\ q1.execs = e /\ q1.tok = q.tok /\ q1.attempt = q.attempt
  BY <1>1 DEF Request
<1> HIDE DEF q1
<1>4. Executed(q) \in Request /\ Executed(q).st = "answered" /\ Executed(q).execs = e
      /\ Executed(q).tok = q.tok /\ Executed(q).attempt = q.attempt
  BY <1>2, <1>3 DEF Request, Answer
<1> QED
  BY <1>4 DEF e

LEMMA FetchStep ==
  ASSUME SessionInv, NEW t \in Tab, NEW k \in Purpose, Fetch(t, k)
  PROVE  SessionInv'
<1> DEFINE q == req[t][k]
           new == Refetched(q)
<1>1. q.st = "ready" /\ Set(t, k, new) /\ UNCHANGED <<server, cookie, tabs, counts>>
  BY DEF Fetch, Refetched
<1>2. /\ q \in Request /\ (k = "page" => PageFit(q)) /\ cookie \in 0..issued
      /\ cookie \in Session \cup {0} /\ revoked \in SUBSET Session /\ faults \in 0..MaxFaults
  BY RequestType
<1> HIDE DEF q
<1>3. /\ new \in Request /\ new.st = "sent" /\ new.tok = cookie
      /\ new.attempt = q.attempt /\ new.execs = q.execs
  BY <1>2, FetchedAgain
<1> HIDE DEF new
<1>4. ~Good(new)
  BY <1>3 DEF Good
<1>5. k = "page" => PageFit(new)
  BY <1>1, <1>2, <1>3, <1>4, PageFitKept
<1>6. Chances(new) <= Chances(q)
  <2>1. q.attempt \in 0..1
    BY <1>2 DEF Request, MAX_RETRIES
  <2> QED
    BY <1>1, <1>2, <1>3, <2>1, ChancesType DEF MAX_RETRIES
<1>7. stored' = [stored EXCEPT ![t] = stored[t]]
  BY <1>1, Same DEF tabs
<1>8. /\ UNCHANGED <<issued, owner, failures, expired, submits, path, phase, form, from>>
      /\ cookie' = cookie /\ revoked' \in SUBSET Session /\ faults' \in 0..MaxFaults
  BY <1>1, <1>2 DEF server, tabs, counts
<1>9. /\ new.st # "none" => req[t][k].st # "none"
      /\ Chances(new) <= Chances(req[t][k]) /\ Set(t, k, new) /\ new.tok \in 0..issued
  BY <1>1, <1>2, <1>3, <1>6 DEF q
<1> QED
  BY <1>3, <1>4, <1>5, <1>7, <1>8, <1>9, ReqStep

LEMMA RetryStep ==
  ASSUME SessionInv, NEW t \in Tab, NEW k \in Purpose, Retry(t, k)
  PROVE  SessionInv'
<1> DEFINE q == req[t][k]
           new == Again(q)
           st == IF q.ans = "401" THEN NoAuth ELSE stored[t]
<1>1. /\ Failing(q) /\ q.attempt # MAX_RETRIES - 1 /\ Set(t, k, new)
      /\ UNCHANGED <<server, cookie, path, phase, form, from, counts>>
  BY DEF Retry, LastTry, Again
<1>2. /\ q \in Request /\ (k = "page" => PageFit(q)) /\ cookie \in 0..issued
      /\ revoked \in SUBSET Session /\ faults \in 0..MaxFaults
  BY RequestType
<1>3. stored' = [stored EXCEPT ![t] = st]
  BY Same DEF Retry, clearStoredAuth, setStoredAuth
<1>4. st \in {stored[t], NoAuth}
  OBVIOUS
<1> HIDE DEF q, st
<1>5. q.st \in {"answered", "lost", "timeout"}
  BY <1>1 DEF Failing
<1>6. /\ new \in Request /\ new.st = "ready" /\ new.tok = 0 /\ q.attempt = 0
      /\ new.attempt = 1 /\ new.execs = q.execs
  BY <1>1, <1>2, TriedAgain
<1> HIDE DEF new
<1>7. ~Good(new)
  BY <1>6 DEF Good
<1>8. k = "page" => PageFit(new)
  BY <1>2, <1>5, <1>6 DEF PageFit, Good, Request, MAX_RETRIES
<1>9. Chances(new) <= Chances(q)
  BY <1>2, <1>5, <1>6, ChancesType DEF MAX_RETRIES
<1>10. /\ UNCHANGED <<issued, owner, failures, expired, submits, path, phase, form, from>>
       /\ cookie' = cookie /\ revoked' \in SUBSET Session /\ faults' \in 0..MaxFaults
  BY <1>1, <1>2 DEF server, counts
<1>11. issued \in Nat
  BY InvParts
<1>12. /\ new.st # "none" => req[t][k].st # "none"
       /\ Chances(new) <= Chances(req[t][k]) /\ Set(t, k, new) /\ new.tok \in 0..issued
  BY <1>1, <1>2, <1>5, <1>6, <1>9, <1>11 DEF q
<1> QED
  BY <1>3, <1>4, <1>6, <1>7, <1>8, <1>10, <1>12, ReqStep

\* The server answers, without having handed out a session.
LEMMA ServeStep ==
  ASSUME SessionInv, NEW t \in Tab, ServeMe(t) \/ ServePage(t) \/ ServeLogout(t)
  PROVE  SessionInv'
<1>1. PICK k \in {"me", "page", "logout"}, a \in {"ok", "401"}, ex \in BOOLEAN :
        /\ req[t][k].st = "sent"
        /\ Set(t, k, IF ex THEN Executed(req[t][k]) ELSE Moved(req[t][k], "answered", a))
        /\ k = "me" /\ a = "ok" => req[t][k].tok # 0
        /\ ex => k = "page"
        /\ k = "page" /\ ~ex => a = "401"
        /\ revoked' \in {revoked, revoked \cup {req[t][k].tok}}
        /\ revoked' # revoked => Live(req[t][k].tok)
        /\ UNCHANGED <<issued, owner, expired, failures, cookie, tabs, counts>>
  <2>1. CASE ServeMe(t)
    BY <2>1 DEF ServeMe, Reply, Moved, Live, server
  <2>2. CASE ServePage(t)
    BY <2>2 DEF ServePage, Reply, Done, Moved, Executed, server
  <2>3. CASE ServeLogout(t)
    BY <2>3 DEF ServeLogout, Reply, Moved
  <2> QED
    BY <2>1, <2>2, <2>3
<1> DEFINE q == req[t][k]
           new == IF ex THEN Executed(q) ELSE Moved(q, "answered", a)
<1>2. k \in Purpose
  BY DEF Purpose
<1>3. /\ q \in Request /\ q.tok \in 0..issued /\ (k = "page" => PageFit(q)) /\ faults \in 0..MaxFaults
      /\ revoked \in SUBSET Session
  BY <1>2, RequestType
<1>4. /\ q.st = "sent" /\ Set(t, k, new) /\ (k = "me" /\ a = "ok" => q.tok # 0)
      /\ revoked' \in {revoked, revoked \cup {q.tok}} /\ (revoked' # revoked => Live(q.tok))
  BY <1>1
<1> HIDE DEF q
<1>5. ex => q.execs < MAX_RETRIES
  BY <1>1, <1>3, <1>4 DEF PageFit, Request, MAX_RETRIES
<1>6. /\ new \in Request /\ new.st = "answered" /\ new.tok = q.tok /\ new.attempt = q.attempt
      /\ IF ex THEN new.execs = q.execs + 1 ELSE new.execs = q.execs /\ new.ans = a
  <2>1. CASE ex
    BY <1>3, <1>5, <2>1, ExecutedOnce
  <2>2. CASE ~ex
    BY <1>3, <2>2, MovesOn DEF Answer, Stages
  <2> QED
    BY <2>1, <2>2
<1> HIDE DEF new
<1>7. k = "page" => PageFit(new)
  BY <1>1, <1>3, <1>4, <1>6 DEF PageFit, Good, Request, MAX_RETRIES
<1>8. k = "me" /\ Good(new) => new.tok # 0
  BY <1>1, <1>4, <1>6 DEF Good
<1>9. revoked' \in SUBSET Session
  BY <1>3, <1>4 DEF Live, Request
<1>10. stored' = [stored EXCEPT ![t] = stored[t]]
  BY <1>1, Same DEF tabs
<1>11. /\ UNCHANGED <<issued, owner, failures, expired, submits, path, phase, form, from>>
       /\ cookie' = cookie /\ faults' \in 0..MaxFaults
  BY <1>1, <1>3 DEF tabs, counts
<1>12. req[t][k].st # "none"
  BY <1>1
<1>13. new.tok \in 0..issued /\ k # "login"
  BY <1>1, <1>3, <1>6
<1> QED
  BY <1>2, <1>4, <1>6, <1>7, <1>8, <1>9, <1>10, <1>11, <1>12, <1>13, ReqStep

\* A call of a page or of logout begins, or comes to its end.
LEMMA PageStep ==
  ASSUME SessionInv, NEW t \in Tab, PageCall(t) \/ PageOk(t) \/ PageFails(t)
  PROVE  SessionInv'
<1> DEFINE q == req[t]["page"]
<1>1. PICK new \in {Sent, EndedAs(q, "ok"), EndedAs(q, "failed")}, st \in {stored[t], NoAuth} :
        /\ Set(t, "page", new)
        /\ new # Sent => Good(q) \/ Failing(q)
        /\ stored' = [stored EXCEPT ![t] = st]
        /\ UNCHANGED <<server, cookie, path, phase, form, from, counts>>
  <2>1. CASE PageCall(t)
    BY <2>1, Same DEF PageCall, Begin, Sent, tabs
  <2>2. CASE PageOk(t)
    BY <2>2, Same DEF PageOk, Resolves, Good, EndedAs, tabs
  <2>3. CASE PageFails(t)
    BY <2>3, Same DEF PageFails, Rejects, EndedAs, AfterReject, setStoredAuth
  <2> QED
    BY <2>1, <2>2, <2>3
<1>2. /\ q \in Request /\ q.tok \in 0..issued /\ PageFit(q) /\ faults \in 0..MaxFaults
      /\ revoked \in SUBSET Session /\ cookie \in Session \cup {0} /\ cookie \in 0..issued
  BY RequestType, PurposeNames
<1> HIDE DEF q
<1>3. /\ new \in Request /\ new.tok \in 0..issued /\ PageFit(new)
  <2>1. CASE new = Sent
    BY <1>2, <2>1, SentType DEF PageFit, Good
  <2>2. ASSUME NEW e \in {"ok", "failed"}, new = EndedAs(q, e), new # Sent
        PROVE  new \in Request /\ new.tok \in 0..issued /\ PageFit(new)
    <3>1. /\ new \in Request /\ new.st = e /\ new.tok = q.tok /\ new.attempt = q.attempt
          /\ new.execs = q.execs
      BY <1>2, <2>2, Ended
    <3>2. q.st \in {"answered", "lost", "timeout"}
      BY <1>1, <2>2 DEF Failing, Good
    <3> QED
      BY <1>2, <3>1, <3>2 DEF PageFit, Good
  <2> QED
    BY <1>1, <2>1, <2>2
<1>4. /\ UNCHANGED <<issued, owner, failures, expired, submits, path, phase, form, from>>
      /\ cookie' = cookie /\ revoked' \in SUBSET Session /\ faults' \in 0..MaxFaults
  BY <1>1, <1>2 DEF server, counts
<1> DEFINE k == "page"
<1>5. /\ k \in Purpose /\ Set(t, k, new) /\ k \notin {"login", "me"} /\ k = "page"
  BY <1>1, PurposeNames
<1> HIDE DEF k
<1> QED
  BY <1>1, <1>3, <1>4, <1>5, ReqStep

LEMMA LogoutStep ==
  ASSUME SessionInv, NEW t \in Tab, LogoutOk(t) \/ LogoutFails(t)
  PROVE  SessionInv'
<1>1. PICK st \in {stored[t], NoAuth} :
        /\ Set(t, "logout", Idle)
        /\ stored' = [stored EXCEPT ![t] = st]
        /\ cookie' \in {cookie, 0}
        /\ UNCHANGED <<server, path, phase, form, from, counts>>
  <2>1. CASE LogoutOk(t)
    BY <2>1, Same DEF LogoutOk, tabs
  <2>2. CASE LogoutFails(t)
    BY <2>2, Same DEF LogoutFails, AfterReject, setStoredAuth
  <2> QED
    BY <2>1, <2>2
<1>2. faults \in 0..MaxFaults /\ revoked \in SUBSET Session
  BY RequestType, PurposeNames
<1>3. /\ UNCHANGED <<issued, owner, failures, expired, submits, path, phase, form, from>>
      /\ revoked' \in SUBSET Session /\ faults' \in 0..MaxFaults
  BY <1>1, <1>2 DEF server, counts
<1>4. Idle \in Request /\ Idle.tok \in 0..issued
  BY IdleType, InvParts
<1> DEFINE k == "logout"
<1>5. /\ k \in Purpose /\ Set(t, k, Idle) /\ k \notin {"login", "me"} /\ k # "page"
  BY <1>1, PurposeNames
<1> HIDE DEF k
<1> QED
  BY <1>1, <1>3, <1>4, <1>5, ReqStep

-----------------------------------------------------------------------------
(* The steps of a tab.                                                     *)

\* A step of one tab that sends no login and gets no session.
LEMMA TabMoves ==
  ASSUME SessionInv, NEW t \in Tab, NEW p, NEW s, NEW ph, NEW fo, NEW fr, NEW rq,
         TabTypes(p, s, ph, fo, fr, rq), TabFit(issued, p, ph, fo, rq),
         TabBecomes(t, p, s, ph, fo, fr, rq),
         UNCHANGED <<server, submits>>, cookie' \in 0..issued, faults' \in 0..MaxFaults,
         Chances(rq["login"]) <= Chances(req[t]["login"])
  PROVE  SessionInv'
<1>1. ServerTypes /\ issued \in Nat /\ 0..issued \subseteq Session \cup {0}
  BY InvParts
<1>2. ServerTypes'
  BY <1>1 DEF ServerTypes, server
<1>3. SessionsOwned'
  BY DEF SessionInv, SessionsOwned, server
<1>4. rq \in Calls /\ req' = [req EXCEPT ![t] = rq] /\ issued' = issued /\ submits' = submits
  BY DEF TabTypes, TabBecomes, server
<1>5. SessionsBounded'
  BY <1>4, BoundKept
<1>6. TabFit(issued', p, ph, fo, rq) /\ issued <= issued'
  BY <1>1, <1>4
<1> QED
  BY <1>2, <1>3, <1>5, <1>6, TabStep

NoCalls == [k \in Purpose |-> Idle]

LEMMA NoCallsType ==
  /\ NoCalls \in Calls /\ \A k \in Purpose : NoCalls[k] = Idle
  /\ Chances(NoCalls["login"]) = 0 /\ PageFit(Idle) /\ ~Good(Idle) /\ Chances(Idle) = 0
<1>1. NoCalls \in Calls /\ \A k \in Purpose : NoCalls[k] = Idle
  BY IdleType DEF NoCalls, Calls
<1>2. Chances(Idle) = 0
  BY IdleType, ChancesType
<1>3. PageFit(Idle) /\ ~Good(Idle)
  BY IdleType DEF PageFit, Good
<1> QED
  BY <1>1, <1>2, <1>3, PurposeNames

LEMMA NoFormType == NoForm \in Form /\ NoForm.tok = 0
BY DEF NoForm, Form

LEMMA NamesType == /\ "login" \notin Page /\ "dashboard" \in Page /\ None \notin Page
                   /\ NoAuth \in Stored \cup {NoAuth}
                   /\ {"away", "boot", "form", "posting", "success", "me", "granted"} \subseteq Phase
BY SessionAssumption DEF Phase

LEMMA NoChances ==
  ASSUME SessionInv, NEW t \in Tab
  PROVE  /\ Chances(req[t]["login"]) \in Nat
         /\ cookie \in 0..issued /\ faults \in 0..MaxFaults /\ 0 \in 0..issued
<1>1. req[t]["login"] \in Request /\ cookie \in 0..issued /\ faults \in 0..MaxFaults
  BY RequestType, PurposeNames
<1>2. Chances(req[t]["login"]) \in 0..MAX_RETRIES
  BY <1>1, ChancesType
<1>3. 0 \in 0..issued
  BY InvParts
<1> QED
  BY <1>1, <1>2, <1>3 DEF MAX_RETRIES

\* A page or the login page is rendered with the calls that are in flight.
LEMMA Shown ==
  ASSUME SessionInv, NEW t \in Tab, NEW p \in Page, Show(t, stored[t], p), NEW rq \in {req[t], NoCalls},
         req' = [req EXCEPT ![t] = rq], phase[t] \in {"away", "granted"},
         UNCHANGED <<server, submits, stored, cookie>>, faults' \in 0..MaxFaults
  PROVE  SessionInv'
<1> DEFINE q  == Guarded(stored[t], p)
           ph == IF q = "login" THEN "boot" ELSE "away"
           fr == IF q = "login" THEN p ELSE None
<1>1. q \in Page \cup {"login"}
  BY NamesType DEF Guarded
<1>2. /\ TabTypes(path[t], stored[t], phase[t], form[t], from[t], req[t])
      /\ TabFit(issued, path[t], phase[t], form[t], req[t])
      /\ issued \in Nat
  BY InvParts
<1>3. TabBecomes(t, q, stored[t], ph, NoForm, fr, rq)
  BY Same DEF Show, TabBecomes
<1> HIDE DEF q
<1>4. TabTypes(q, stored[t], ph, NoForm, fr, rq)
  BY <1>1, <1>2, NamesType, NoFormType, NoCallsType DEF TabTypes
<1>5. req[t]["login"].st = "none" /\ req[t]["me"].st = "none"
  BY <1>2 DEF TabFit
<1>6. /\ \A k \in Purpose : rq[k].tok \in 0..issued
      /\ rq["login"].st = "none" /\ rq["me"].st = "none" /\ PageFit(rq["page"])
  BY <1>2, <1>5, NoCallsType, IdleType, PurposeNames DEF TabFit
<1>7. TabFit(issued, q, ph, NoForm, rq)
  BY <1>1, <1>2, <1>6, NoFormType DEF TabFit, Good
<1>8. Chances(rq["login"]) <= Chances(req[t]["login"]) /\ cookie' \in 0..issued
  BY NoChances, NoCallsType
<1> QED
  BY <1>3, <1>4, <1>7, <1>8, TabMoves

\* The login page is loaded anew.
LEMMA Loaded ==
  ASSUME SessionInv, NEW t \in Tab, LoadLogin(t), NEW s \in {stored[t], NoAuth},
         stored' = [stored EXCEPT ![t] = s],
         UNCHANGED <<server, submits, cookie>>, faults' \in 0..MaxFaults
  PROVE  SessionInv'
<1>1. /\ TabTypes(path[t], stored[t], phase[t], form[t], from[t], req[t])
      /\ issued \in Nat
  BY InvParts
<1> DEFINE p == "login"
           ph == "boot"
<1>2. TabBecomes(t, p, s, ph, NoForm, None, NoCalls)
  BY DEF LoadLogin, TabBecomes, NoCalls
<1>3. TabTypes(p, s, ph, NoForm, None, NoCalls)
  BY <1>1, NamesType, NoFormType, NoCallsType DEF TabTypes
<1>4. TabFit(issued, p, ph, NoForm, NoCalls)
  BY <1>1, NoCallsType, IdleType, PurposeNames, NoFormType DEF TabFit
<1>5. Chances(NoCalls["login"]) <= Chances(req[t]["login"]) /\ cookie' \in 0..issued
  BY NoChances, NoCallsType
<1> HIDE DEF p, ph
<1> QED
  BY <1>2, <1>3, <1>4, <1>5, TabMoves

\* Every step of rendering: a redirect, a navigation, a reload, an expulsion.
LEMMA ShowStep ==
  ASSUME SessionInv, NEW t \in Tab,
         Redirect(t) \/ (\E p \in Page : Open(t, p)) \/ Reload(t) \/ \E k \in Purpose : Expelled(t, k)
  PROVE  SessionInv'
<1>1. /\ TabTypes(path[t], stored[t], phase[t], form[t], from[t], req[t])
      /\ TabFit(issued, path[t], phase[t], form[t], req[t]) /\ faults \in 0..MaxFaults
  BY InvParts, NoChances
<1>2. req = [req EXCEPT ![t] = req[t]] /\ stored = [stored EXCEPT ![t] = stored[t]]
  BY Same
<1>3. CASE Redirect(t)
  <2> DEFINE p == IF from[t] = None THEN "dashboard" ELSE from[t]
  <2>1. p \in Page
    BY <1>1, NamesType DEF TabTypes
  <2>2. /\ Show(t, stored[t], p) /\ phase[t] = "granted" /\ req' = req
        /\ UNCHANGED <<server, submits, stored, cookie>> /\ faults' = faults
    BY <1>3 DEF Redirect, GrantedScreen, counts
  <2> HIDE DEF p
  <2> QED
    BY <1>1, <1>2, <2>1, <2>2, Shown
<1>4. CASE \E p \in Page : Open(t, p)
  <2>1. PICK p \in Page : Open(t, p)
    BY <1>4
  <2>2. /\ Show(t, stored[t], p) /\ phase[t] = "away" /\ req' = req
        /\ UNCHANGED <<server, submits, stored, cookie>> /\ faults' = faults
    BY <1>1, <2>1 DEF Open, counts, TabFit
  <2> QED
    BY <1>1, <1>2, <2>2, Shown
<1>5. CASE Reload(t)
  <2>1. faults' \in 0..MaxFaults /\ submits' = submits /\ UNCHANGED <<server, cookie, stored>>
    BY <1>5, FaultType DEF Reload
  <2>2. CASE path[t] = "login"
    <3>1. LoadLogin(t)
      BY <1>5, <2>2 DEF Reload
    <3> QED
      BY <1>2, <2>1, <3>1, Loaded
  <2>3. CASE path[t] # "login"
    <3>1. Show(t, stored[t], path[t]) /\ req' = [req EXCEPT ![t] = NoCalls]
      BY <1>5, <2>3 DEF Reload, NoCalls
    <3>2. path[t] \in Page /\ phase[t] = "away"
      BY <1>1, <2>3 DEF TabTypes, TabFit
    <3> QED
      BY <2>1, <3>1, <3>2, Shown
  <2> QED
    BY <2>2, <2>3
<1>6. CASE \E k \in Purpose : Expelled(t, k)
  <2>1. /\ LoadLogin(t) /\ stored' = [stored EXCEPT ![t] = NoAuth] /\ faults' = faults
        /\ UNCHANGED <<server, submits, cookie>>
    BY <1>6 DEF Expelled, clearStoredAuth, setStoredAuth, counts
  <2> QED
    BY <1>1, <2>1, Loaded
<1> QED
  BY <1>3, <1>4, <1>5, <1>6

\* A step of the login page at which request k begins, ends or stays.
LoginPageFits(t, k, r, p, ph, fo, s) ==
  /\ k # "page" /\ r.tok \in 0..issued /\ ~Good(r)
  /\ k = "login" => Chances(r) <= Chances(req[t]["login"])
  /\ p \in {path[t], "login"} /\ ph \in Phase /\ fo \in Form /\ s \in Stored \cup {NoAuth}
  /\ p = "login" <=> ph # "away"
  /\ fo.tok \in 0..issued
  /\ ph = "posting" => fo.user \in User
  /\ ph \in {"success", "me"} => fo.tok # 0
  /\ IF k = "login" THEN r.st = "none" ELSE req[t]["login"].st = "none"
  /\ IF k = "me" THEN r.st # "none" => ph = "me" ELSE req[t]["me"].st = "none"
LoginPageBecomes(t, k, r, p, ph, fo, s) ==
  /\ Set(t, k, r)
  /\ path' = [path EXCEPT ![t] = p] /\ stored' = [stored EXCEPT ![t] = s]
  /\ phase' = [phase EXCEPT ![t] = ph] /\ form' = [form EXCEPT ![t] = fo] /\ from' = from
  /\ UNCHANGED <<server, counts>> /\ cookie' \in 0..issued

LEMMA PageOfLogin ==
  ASSUME SessionInv, NEW t \in Tab, NEW k \in Purpose, NEW r \in Request,
         NEW p, NEW ph, NEW fo, NEW s,
         LoginPageFits(t, k, r, p, ph, fo, s), LoginPageBecomes(t, k, r, p, ph, fo, s)
  PROVE  SessionInv'
<1> USE DEF LoginPageFits, LoginPageBecomes
<1>1. PICK rq \in Calls : /\ req' = [req EXCEPT ![t] = rq]
                          /\ \A l \in Purpose : rq[l] = IF l = k THEN r ELSE req[t][l]
  BY SetType
<1>2. /\ TabTypes(path[t], stored[t], phase[t], form[t], from[t], req[t])
      /\ TabFit(issued, path[t], phase[t], form[t], req[t])
  BY InvParts
<1>3. TabTypes(p, s, ph, fo, from[t], rq)
  BY <1>2 DEF TabTypes
<1>4. TabFit(issued, p, ph, fo, rq)
  <2>1. \A l \in Purpose : rq[l].tok \in 0..issued
    BY <1>1, <1>2 DEF TabFit
  <2>2. rq["login"].st = "none"
    BY <1>1, PurposeNames
  <2>3. (rq["me"].st # "none" => ph = "me") /\ (Good(rq["me"]) => rq["me"].tok # 0)
    BY <1>1, <1>2, PurposeNames DEF TabFit
  <2>4. PageFit(rq["page"])
    BY <1>1, <1>2, PurposeNames DEF TabFit
  <2> QED
    BY <2>1, <2>2, <2>3, <2>4 DEF TabFit, Good
<1>5. Chances(rq["login"]) <= Chances(req[t]["login"])
  <2>1. rq["login"] = (IF k = "login" THEN r ELSE req[t]["login"])
    BY <1>1, PurposeNames
  <2> QED
    BY <2>1, NoChances
<1>6. TabBecomes(t, p, s, ph, fo, from[t], rq)
  BY <1>1, Same DEF TabBecomes
<1>7. faults' \in 0..MaxFaults /\ UNCHANGED <<server, submits>>
  BY NoChances DEF counts
<1> QED
  BY <1>3, <1>4, <1>5, <1>6, <1>7, TabMoves

LEMMA LoginOver ==
  ASSUME SessionInv, NEW t \in Tab
  PROVE  /\ Idle \in Request /\ Idle.tok \in 0..issued /\ ~Good(Idle) /\ Idle.st = "none"
         /\ Chances(Idle) <= Chances(req[t]["login"])
         /\ req[t]["login"] \in Request /\ req[t]["me"] \in Request
         /\ (req[t]["login"].st # "none" => phase[t] = "posting")
         /\ (req[t]["me"].st # "none" => phase[t] = "me")
         /\ path[t] = "login" <=> phase[t] # "away"
         /\ form[t] \in Form /\ form[t].tok \in 0..issued
         /\ (phase[t] \in {"success", "me"} => form[t].tok # 0)
         /\ stored[t] \in Stored \cup {NoAuth} /\ NoAuth \in Stored \cup {NoAuth}
         /\ cookie \in 0..issued
BY IdleType, NoCallsType, NoChances, InvParts, RequestType, PurposeNames, NamesType DEF TabTypes, TabFit

LEMMA LoginOkStep ==
  ASSUME SessionInv, NEW t \in Tab, LoginOk(t)
  PROVE  SessionInv'
<1> DEFINE n  == req[t]["login"].tok
           fo == [form[t] EXCEPT !.tok = n]
           s  == [user |-> owner[n], role |-> Role[owner[n]], tok |-> n]
<1>1. /\ req[t]["login"].st = "answered" /\ Good(req[t]["login"])
  BY DEF LoginOk, Resolves, Good
<1>2. n \in 1..issued /\ n \in Session /\ owner[n] \in User
  <2>1. n \in 0..issued /\ n # 0
    BY <1>1, RequestType, PurposeNames
  <2>2. n \in 1..issued
    BY <2>1, InvParts
  <2>3. 0 \notin 1..issued /\ n \in Session \cup {0}
    BY <2>1, InvParts
  <2> QED
    BY <2>1, <2>2, <2>3 DEF SessionInv, SessionsOwned
<1>3. /\ cookie' = n /\ stored' = [stored EXCEPT ![t] = s]
      /\ form' = [form EXCEPT ![t] = fo]
      /\ phase' = [phase EXCEPT ![t] = "success"] /\ Set(t, "login", Idle)
      /\ UNCHANGED <<server, path, from, counts>>
  BY DEF LoginOk, setStoredAuth, Enter, SessionInv, TypeOK
<1>4. s \in Stored
  BY <1>2, SessionAssumption DEF Stored
<1>5. phase[t] = "posting" /\ path[t] = "login" /\ req[t]["me"].st = "none"
  BY <1>1, LoginOver
<1>6. fo \in Form /\ fo.tok = n
  BY <1>2, LoginOver DEF Form
<1>7. n \in 0..issued /\ n # 0
  BY <1>2, InvParts
<1> HIDE DEF n, fo, s
<1> DEFINE k == "login"
           ph == "success"
<1>8. /\ k \in Purpose /\ k # "page" /\ k = "login" /\ ph \in Phase /\ ph # "away" /\ ph # "posting"
      /\ Set(t, k, Idle) /\ phase' = [phase EXCEPT ![t] = ph]
  BY <1>3, PurposeNames, NamesType
<1>9. path' = [path EXCEPT ![t] = path[t]]
  BY <1>3, Same
<1> HIDE DEF k, ph
<1>10. LoginPageFits(t, k, Idle, path[t], ph, fo, s)
  BY <1>3, <1>4, <1>5, <1>6, <1>7, <1>8, <1>9, LoginOver DEF LoginPageFits
<1>11. LoginPageBecomes(t, k, Idle, path[t], ph, fo, s)
  BY <1>3, <1>4, <1>5, <1>6, <1>7, <1>8, <1>9, LoginOver DEF LoginPageBecomes
<1> QED
  BY <1>10, <1>11, <1>8, LoginOver, PageOfLogin

LEMMA LoginFailsStep ==
  ASSUME SessionInv, NEW t \in Tab, LoginFails(t)
  PROVE  SessionInv'
<1>1. req[t]["login"].st # "none"
  BY DEF LoginFails, Rejects, Failing
<1>2. /\ stored' = [stored EXCEPT ![t] = NoAuth] /\ form' = [form EXCEPT ![t] = NoForm]
      /\ phase' = [phase EXCEPT ![t] = "form"] /\ Set(t, "login", Idle)
      /\ UNCHANGED <<server, cookie, path, from, counts>>
  BY DEF LoginFails, clearStoredAuth, setStoredAuth, Enter
<1>3. phase[t] = "posting" /\ path[t] = "login" /\ req[t]["me"].st = "none"
  BY <1>1, LoginOver
<1>4. NoForm \in Form /\ NoForm.tok \in 0..issued
  BY NoFormType, InvParts
<1> DEFINE k == "login"
           ph == "form"
<1>5. /\ k \in Purpose /\ k # "page" /\ k = "login" /\ ph \in Phase /\ ph # "away" /\ ph # "posting"
      /\ ph \notin {"success", "me"} /\ Set(t, k, Idle) /\ phase' = [phase EXCEPT ![t] = ph]
  BY <1>2, PurposeNames, NamesType
<1>6. path' = [path EXCEPT ![t] = path[t]]
  BY <1>2, Same
<1> HIDE DEF k, ph
<1>7. LoginPageFits(t, k, Idle, path[t], ph, NoForm, NoAuth)
  BY <1>2, <1>3, <1>4, <1>5, <1>6, LoginOver DEF LoginPageFits
<1>8. LoginPageBecomes(t, k, Idle, path[t], ph, NoForm, NoAuth)
  BY <1>2, <1>3, <1>4, <1>5, <1>6, LoginOver DEF LoginPageBecomes
<1> QED
  BY <1>7, <1>8, <1>5, LoginOver, PageOfLogin

LEMMA MeEndsStep ==
  ASSUME SessionInv, NEW t \in Tab, MeOk(t) \/ MeFails(t)
  PROVE  SessionInv'
<1>1. req[t]["me"].st # "none"
  BY DEF MeOk, Resolves, MeFails, Rejects, Failing
<1>2. phase[t] = "me" /\ path[t] = "login" /\ req[t]["login"].st = "none"
  BY <1>1, LoginOver
<1>3. PICK s \in Stored \cup {NoAuth} : stored' = [stored EXCEPT ![t] = s]
  <2>1. CASE MeOk(t)
    <3> DEFINE n == req[t]["me"].tok
               s == [user |-> owner[n], role |-> Role[owner[n]], tok |-> form[t].tok]
    <3>1. n \in 0..issued /\ n # 0
      BY <2>1, RequestType, PurposeNames DEF MeOk, Resolves, Good
    <3>2. owner[n] \in User
      BY <3>1, InvParts DEF SessionInv, SessionsOwned
    <3>3. form[t].tok \in Session
      BY <1>2, LoginOver DEF Form
    <3>4. s \in Stored
      BY <3>2, <3>3, SessionAssumption DEF Stored
    <3> QED
      BY <2>1, <3>4 DEF MeOk, setStoredAuth
  <2>2. CASE MeFails(t)
    BY <2>2, LoginOver DEF MeFails, setStoredAuth, AfterReject
  <2> QED
    BY <2>1, <2>2
<1>4. /\ phase' = [phase EXCEPT ![t] = "granted"] /\ Set(t, "me", Idle)
      /\ UNCHANGED <<server, cookie, path, form, from, counts>>
  BY DEF MeOk, MeFails, Enter
<1> DEFINE k == "me"
           ph == "granted"
<1>5. /\ k \in Purpose /\ k # "page" /\ k = "me" /\ k # "login"
      /\ ph \in Phase /\ ph # "away" /\ ph # "posting"
      /\ ph \notin {"success", "me"} /\ Set(t, k, Idle) /\ phase' = [phase EXCEPT ![t] = ph]
  BY <1>4, PurposeNames, NamesType
<1>6. path' = [path EXCEPT ![t] = path[t]] /\ form' = [form EXCEPT ![t] = form[t]]
  BY <1>4, Same
<1> HIDE DEF k, ph
<1>7. LoginPageFits(t, k, Idle, path[t], ph, form[t], s)
  BY <1>2, <1>3, <1>4, <1>5, <1>6, LoginOver DEF LoginPageFits
<1>8. LoginPageBecomes(t, k, Idle, path[t], ph, form[t], s)
  BY <1>2, <1>3, <1>4, <1>5, <1>6, LoginOver DEF LoginPageBecomes
<1> QED
  BY <1>7, <1>8, <1>5, LoginOver, PageOfLogin

LEMMA BeginsGood ==
  ASSUME SessionInv
  PROVE  Sent \in Request /\ Sent.tok \in 0..issued /\ ~Good(Sent)
<1>1. cookie \in 0..issued /\ cookie \in Session \cup {0}
  BY DEF SessionInv, SessionsOwned, TypeOK
<1> QED
  BY <1>1, SentType DEF Good

LEMMA SuccessPlayedStep ==
  ASSUME SessionInv, NEW t \in Tab, SuccessPlayed(t)
  PROVE  SessionInv'
<1>1. /\ phase[t] = "success" /\ Set(t, "me", Sent) /\ phase' = [phase EXCEPT ![t] = "me"]
      /\ UNCHANGED <<server, cookie, path, stored, form, from, counts>>
  BY DEF SuccessPlayed, Enter, Begin, Sent
<1>2. path[t] = "login" /\ req[t]["login"].st = "none" /\ form[t].tok # 0
  BY <1>1, LoginOver
<1> DEFINE k == "me"
           ph == "me"
<1>3. /\ k \in Purpose /\ k # "page" /\ k = "me" /\ k # "login"
      /\ ph \in Phase /\ ph # "away" /\ ph # "posting" /\ ph = "me"
      /\ Set(t, k, Sent) /\ phase' = [phase EXCEPT ![t] = ph]
  BY <1>1, PurposeNames, NamesType
<1>4. /\ path' = [path EXCEPT ![t] = path[t]] /\ form' = [form EXCEPT ![t] = form[t]]
      /\ stored' = [stored EXCEPT ![t] = stored[t]]
  BY <1>1, Same
<1> HIDE DEF k, ph
<1>5. LoginPageFits(t, k, Sent, path[t], ph, form[t], stored[t])
  BY <1>1, <1>2, <1>3, <1>4, LoginOver, BeginsGood DEF LoginPageFits
<1>6. LoginPageBecomes(t, k, Sent, path[t], ph, form[t], stored[t])
  BY <1>1, <1>2, <1>3, <1>4, LoginOver, BeginsGood DEF LoginPageBecomes
<1> QED
  BY <1>5, <1>6, <1>3, BeginsGood, PageOfLogin

LEMMA LogoutBegins ==
  ASSUME SessionInv, NEW t \in Tab, handleLogout(t)
  PROVE  SessionInv'
<1>1. /\ path[t] # "login" /\ Set(t, "logout", Sent) /\ phase' = [phase EXCEPT ![t] = "boot"]
      /\ stored' = [stored EXCEPT ![t] = NoAuth] /\ path' = [path EXCEPT ![t] = "login"]
      /\ UNCHANGED <<server, cookie, form, from, counts>>
  BY DEF handleLogout, Enter, Begin, Sent, clearStoredAuth, setStoredAuth
<1>2. req[t]["login"].st = "none" /\ req[t]["me"].st = "none"
  BY <1>1, LoginOver
<1> DEFINE k == "logout"
           ph == "boot"
           p == "login"
<1>3. /\ k \in Purpose /\ k # "page" /\ k # "me" /\ k # "login" /\ p = "login"
      /\ ph \in Phase /\ ph # "away" /\ ph # "posting" /\ ph \notin {"success", "me"}
      /\ Set(t, k, Sent) /\ phase' = [phase EXCEPT ![t] = ph] /\ path' = [path EXCEPT ![t] = p]
  BY <1>1, PurposeNames, NamesType
<1>4. form' = [form EXCEPT ![t] = form[t]]
  BY <1>1, Same
<1> HIDE DEF k, ph, p
<1>5. LoginPageFits(t, k, Sent, p, ph, form[t], NoAuth)
  BY <1>1, <1>2, <1>3, <1>4, LoginOver, BeginsGood DEF LoginPageFits
<1>6. LoginPageBecomes(t, k, Sent, p, ph, form[t], NoAuth)
  BY <1>1, <1>2, <1>3, <1>4, LoginOver, BeginsGood DEF LoginPageBecomes
<1> QED
  BY <1>5, <1>6, <1>3, BeginsGood, PageOfLogin

LEMMA BootStep ==
  ASSUME SessionInv, NEW t \in Tab, BootDone(t)
  PROVE  SessionInv'
<1>1. /\ phase[t] = "boot" /\ phase' = [phase EXCEPT ![t] = "form"]
      /\ UNCHANGED <<server, cookie, path, stored, form, from, req, counts>>
  BY DEF BootDone, BootScreen, Enter
<1>2. /\ TabTypes(path[t], stored[t], phase[t], form[t], from[t], req[t])
      /\ TabFit(issued, path[t], phase[t], form[t], req[t])
  BY InvParts
<1> DEFINE ph == "form"
<1>3. TabTypes(path[t], stored[t], ph, form[t], from[t], req[t])
  BY <1>2, NamesType DEF TabTypes
<1>4. TabFit(issued, path[t], ph, form[t], req[t])
  BY <1>1, <1>2 DEF TabFit
<1>5. TabBecomes(t, path[t], stored[t], ph, form[t], from[t], req[t])
  BY <1>1, Same DEF TabBecomes
<1>6. /\ UNCHANGED <<server, submits>> /\ cookie' \in 0..issued /\ faults' \in 0..MaxFaults
      /\ Chances(req[t]["login"]) <= Chances(req[t]["login"])
  BY <1>1, NoChances DEF counts
<1> HIDE DEF ph
<1> QED
  BY <1>3, <1>4, <1>5, <1>6, TabMoves

-----------------------------------------------------------------------------
(* Logging in: the bound on the sessions.                                  *)

\* Which logins of other tabs may still be answered does not change.
LEMMA PendingElsewhere ==
  ASSUME SessionInv, NEW t \in Tab, NEW rq \in Calls, req' = [req EXCEPT ![t] = rq]
  PROVE  /\ \A p \in Pending' : p[1] # t => p \in Pending
         /\ \A p \in Pending' : p[1] = t => /\ p[2] \in 1..MAX_RETRIES /\ p = <<t, p[2]>>
                                            /\ p[2] <= Chances(rq["login"])
         /\ IsFiniteSet(Pending) /\ Cardinality(Pending) \in Nat
<1>1. req \in [Tab -> Calls]
  BY DEF SessionInv, TypeOK, Calls
<1>2. \A p \in Pending' : p[1] # t => p \in Pending
  BY <1>1 DEF Pending
<1>3. \A p \in Pending' : p[1] = t => /\ p[2] \in 1..MAX_RETRIES /\ p = <<t, p[2]>>
                                      /\ p[2] <= Chances(rq["login"])
  BY <1>1 DEF Pending
<1>4. IsFiniteSet(Pending)
  BY DEF SessionInv, SessionsBounded
<1> QED
  BY <1>2, <1>3, <1>4, FS_CardinalityType

LEMMA OneMore ==
  ASSUME NEW S, NEW x, IsFiniteSet(S)
  PROVE  /\ IsFiniteSet(S \cup {x}) /\ Cardinality(S) \in Nat /\ Cardinality(S \cup {x}) \in Nat
         /\ Cardinality(S \cup {x}) <= Cardinality(S) + 1
<1>1. /\ IsFiniteSet(S \cup {x})
      /\ Cardinality(S \cup {x}) = Cardinality(S) \/ Cardinality(S \cup {x}) = Cardinality(S) + 1
  BY FS_AddElement
<1>2. Cardinality(S) \in Nat
  BY FS_CardinalityType
<1> QED
  BY <1>1, <1>2

LEMMA SubmitStep ==
  ASSUME SessionInv, NEW t \in Tab, NEW u \in User, NEW right \in BOOLEAN, handleLogin(t, u, right)
  PROVE  SessionInv'
<1> DEFINE fo == [user |-> u, right |-> right, tok |-> 0]
<1>1. /\ phase[t] = "form" /\ submits < MaxSubmits /\ form' = [form EXCEPT ![t] = fo]
      /\ submits' = submits + 1 /\ phase' = [phase EXCEPT ![t] = "posting"] /\ Set(t, "login", Sent)
      /\ UNCHANGED <<server, cookie, path, stored, from, faults>>
  BY DEF handleLogin, LoginScreen, Enter, Begin, Sent
<1>2. fo \in Form /\ fo.tok = 0 /\ fo.user \in User
  BY DEF Form
<1> HIDE DEF fo
<1>3. /\ TabTypes(path[t], stored[t], phase[t], form[t], from[t], req[t])
      /\ TabFit(issued, path[t], phase[t], form[t], req[t])
      /\ issued \in Nat /\ submits \in Nat /\ ServerTypes
  BY InvParts
<1>4. PICK rq \in Calls : /\ req' = [req EXCEPT ![t] = rq]
                          /\ \A l \in Purpose : rq[l] = IF l = "login" THEN Sent ELSE req[t][l]
  BY <1>1, BeginsGood, PurposeNames, SetType
<1> DEFINE ph == "posting"
<1>5. TabTypes(path[t], stored[t], ph, fo, from[t], rq)
  BY <1>2, <1>3, NamesType DEF TabTypes
<1>6. TabFit(issued', path[t], ph, fo, rq)
  <2>1. \A l \in Purpose : rq[l].tok \in 0..issued
    BY <1>3, <1>4, BeginsGood DEF TabFit
  <2>2. req[t]["me"].st = "none" /\ path[t] = "login" /\ PageFit(req[t]["page"])
    BY <1>1, <1>3 DEF TabFit
  <2>3. /\ rq["login"] = Sent /\ rq["me"] = req[t]["me"] /\ rq["page"] = req[t]["page"]
    BY <1>4, PurposeNames
  <2>4. issued' = issued /\ 0 \in 0..issued
    BY <1>1, <1>3 DEF server
  <2> QED
    BY <1>2, <2>1, <2>2, <2>3, <2>4, BeginsGood DEF TabFit, Good
<1>7. ServerTypes'
  BY <1>1, <1>3, SessionAssumption DEF ServerTypes, server
<1>8. SessionsOwned'
  BY <1>1 DEF SessionInv, SessionsOwned, server
<1>9. SessionsBounded'
  <2> DEFINE P1 == Pending \cup {<<t, 1>>}
             P2 == P1 \cup {<<t, 2>>}
  <2>1. /\ IsFiniteSet(P1) /\ IsFiniteSet(P2) /\ Cardinality(P1) <= Cardinality(Pending) + 1
        /\ Cardinality(P2) <= Cardinality(P1) + 1 /\ Cardinality(Pending) \in Nat
        /\ Cardinality(P1) \in Nat /\ Cardinality(P2) \in Nat
    BY <1>4, OneMore, PendingElsewhere
  <2>2. Pending' \subseteq P2
    <3>1. 1..MAX_RETRIES = {1, 2}
      BY DEF MAX_RETRIES
    <3> QED
      BY <1>4, <3>1, PendingElsewhere
  <2> HIDE DEF P1, P2
  <2>3. IsFiniteSet(Pending') /\ Cardinality(Pending') <= Cardinality(P2)
    BY <2>1, <2>2, FS_Subset
  <2>4. Cardinality(Pending') \in Nat
    BY <2>3, FS_CardinalityType
  <2>5. issued' = issued /\ submits' = submits + 1 /\ issued + Cardinality(Pending) <= MAX_RETRIES * submits
    BY <1>1 DEF server, SessionInv, SessionsBounded
  <2>6. Cardinality(Pending') <= Cardinality(Pending) + 2
    BY <2>1, <2>3, <2>4
  <2>7. issued' + Cardinality(Pending') <= MAX_RETRIES * submits'
    BY <1>3, <2>1, <2>4, <2>5, <2>6 DEF MAX_RETRIES
  <2> QED
    BY <2>3, <2>7 DEF SessionsBounded
<1>10. TabBecomes(t, path[t], stored[t], ph, fo, from[t], rq) /\ issued <= issued'
  BY <1>1, <1>3, <1>4, Same DEF TabBecomes, server
<1> HIDE DEF ph
<1> QED
  BY <1>5, <1>6, <1>7, <1>8, <1>9, <1>10, TabStep

\* The server refuses the login.
LEMMA RefusedStep ==
  ASSUME SessionInv, NEW t \in Tab, ServeLogin(t), failures[form[t].user] >= MaxFailed \/ ~form[t].right
  PROVE  SessionInv'
<1> DEFINE q == req[t]["login"]
           u == form[t].user
<1>1. PICK a \in {"error", "401"} :
        /\ q.st = "sent" /\ failures' = [failures EXCEPT ![u] = Capped(@)]
        /\ Set(t, "login", Moved(q, "answered", a))
        /\ UNCHANGED <<issued, owner, revoked, expired, cookie, tabs, counts>>
  BY DEF ServeLogin, Reply, Moved
<1>2. /\ TabTypes(path[t], stored[t], phase[t], form[t], from[t], req[t])
      /\ TabFit(issued, path[t], phase[t], form[t], req[t])
      /\ issued \in Nat /\ submits \in Nat /\ ServerTypes
  BY InvParts
<1>3. q \in Request /\ q.tok \in 0..issued
  BY RequestType, PurposeNames
<1>4. phase[t] = "posting" /\ path[t] = "login" /\ req[t]["me"].st = "none" /\ u \in User
  BY <1>1, <1>2, LoginOver DEF TabFit
<1> DEFINE new == Moved(q, "answered", a)
<1> HIDE DEF q
<1>5. new \in Request /\ new.st = "answered" /\ new.ans = a /\ new.tok = q.tok /\ new.attempt = q.attempt
  BY <1>3, MovesOn DEF Answer, Stages
<1>6. Set(t, "login", new)
  BY <1>1
<1> HIDE DEF new, u
<1>7. PICK rq \in Calls : /\ req' = [req EXCEPT ![t] = rq]
                          /\ \A l \in Purpose : rq[l] = IF l = "login" THEN new ELSE req[t][l]
  BY <1>5, <1>6, PurposeNames, SetType
<1>8. TabTypes(path[t], stored[t], phase[t], form[t], from[t], rq)
  BY <1>2 DEF TabTypes
<1>9. TabFit(issued', path[t], phase[t], form[t], rq)
  <2>1. \A l \in Purpose : rq[l].tok \in 0..issued
    BY <1>2, <1>3, <1>5, <1>7 DEF TabFit
  <2>2. rq["login"] = new /\ rq["me"] = req[t]["me"] /\ rq["page"] = req[t]["page"]
    BY <1>7, PurposeNames
  <2>3. issued' = issued
    BY <1>1
  <2>4. ~Good(new)
    BY <1>5 DEF Good
  <2> QED
    BY <1>2, <1>4, <2>1, <2>2, <2>3, <2>4 DEF TabFit
<1>10. ServerTypes'
  <2>1. failures \in [User -> 0..MaxFailed] /\ MaxFailed \in Nat
    BY <1>2, SessionAssumption DEF ServerTypes
  <2>2. \A n \in 0..MaxFailed : Capped(n) \in 0..MaxFailed
    BY <2>1 DEF Capped
  <2>3. failures' \in [User -> 0..MaxFailed]
    BY <1>1, <2>1, <2>2
  <2> QED
    BY <1>1, <1>2, <2>3 DEF ServerTypes, counts
<1>11. SessionsOwned'
  BY <1>1 DEF SessionInv, SessionsOwned
<1>12. SessionsBounded'
  <2>1. rq["login"] = new
    BY <1>7, PurposeNames
  <2>2. q.attempt \in 0..1
    BY <1>3 DEF Request, MAX_RETRIES
  <2>3. Chances(new) <= Chances(q)
    BY <1>1, <1>3, <1>5, <2>2, ChancesType DEF MAX_RETRIES, q
  <2> QED
    BY <1>1, <1>7, <2>1, <2>3, BoundKept DEF counts, q
<1>13. /\ TabBecomes(t, path[t], stored[t], phase[t], form[t], from[t], rq) /\ issued <= issued'
  BY <1>1, <1>2, <1>7, Same DEF TabBecomes, tabs
<1> QED
  BY <1>8, <1>9, <1>10, <1>11, <1>12, <1>13, TabStep

Accepted(q) == [q EXCEPT !.st = "answered", !.ans = "ok", !.tok = issued + 1]

\* The server accepts the login: one login less may be, one session more is
\* handed out.
LEMMA AcceptedStep ==
  ASSUME SessionInv, NEW t \in Tab, ServeLogin(t), ~(failures[form[t].user] >= MaxFailed \/ ~form[t].right)
  PROVE  SessionInv'
<1> DEFINE q == req[t]["login"]
           u == form[t].user
           n == issued + 1
           new == Accepted(q)
<1>1. /\ q.st = "sent" /\ issued' = n /\ owner' = [owner EXCEPT ![n] = u]
      /\ Set(t, "login", new)
      /\ UNCHANGED <<failures, revoked, expired, cookie, tabs, counts>>
  BY DEF ServeLogin, Accepted
<1>2. /\ TabTypes(path[t], stored[t], phase[t], form[t], from[t], req[t])
      /\ TabFit(issued, path[t], phase[t], form[t], req[t])
      /\ issued \in Nat /\ submits \in Nat /\ ServerTypes
  BY InvParts
<1>3. q \in Request
  BY RequestType, PurposeNames
<1>4. phase[t] = "posting" /\ path[t] = "login" /\ req[t]["me"].st = "none" /\ u \in User
  BY <1>1, <1>2, LoginOver DEF TabFit
<1> HIDE DEF u
<1>5. q.attempt \in {0, 1} /\ Chances(q) = MAX_RETRIES - q.attempt /\ Chances(q) \in 1..MAX_RETRIES
  BY <1>1, <1>3, ChancesType DEF Request, MAX_RETRIES
<1>6. <<t, Chances(q)>> \in Pending
  BY <1>5 DEF Pending
<1>7. IsFiniteSet(Pending) /\ issued + Cardinality(Pending) <= MAX_RETRIES * submits /\ Cardinality(Pending) \in Nat
  BY FS_CardinalityType DEF SessionInv, SessionsBounded
<1> DEFINE P == Pending \ {<<t, Chances(q)>>}
<1>8. IsFiniteSet(P) /\ Cardinality(P) = Cardinality(Pending) - 1 /\ Cardinality(P) \in Nat
  BY <1>6, <1>7, FS_RemoveElement, FS_CardinalityType
<1>9. n \in Session /\ n \in Nat
  <2>1. n <= MAX_RETRIES * submits
    BY <1>2, <1>7, <1>8 DEF MAX_RETRIES
  <2>2. submits <= MaxSubmits /\ MaxSubmits \in Nat
    BY <1>2, SessionAssumption DEF ServerTypes
  <2> QED
    BY <1>2, <2>1, <2>2 DEF Session, MAX_RETRIES
<1>10. new \in Request /\ new.st = "answered" /\ new.ans = "ok" /\ new.tok = n /\ new.attempt = q.attempt
  <2> HIDE DEF q
  <2>1. new = [q EXCEPT !.st = "answered", !.ans = "ok", !.tok = n]
    BY DEF Accepted
  <2> HIDE DEF n, new
  <2> QED
    BY <1>3, <1>9, <2>1 DEF Request, Answer
<1> HIDE DEF new
<1>11. PICK rq \in Calls : /\ req' = [req EXCEPT ![t] = rq]
                           /\ \A l \in Purpose : rq[l] = IF l = "login" THEN new ELSE req[t][l]
  BY <1>1, <1>10, PurposeNames, SetType
<1>12. 0..issued \subseteq 0..n /\ n # 0
  BY <1>2
<1> HIDE DEF n, q
<1>13. TabTypes(path[t], stored[t], phase[t], form[t], from[t], rq)
  BY <1>2 DEF TabTypes
<1>14. TabFit(issued', path[t], phase[t], form[t], rq)
  <2>1. \A l \in Purpose : rq[l].tok \in 0..n
    BY <1>2, <1>9, <1>10, <1>11, <1>12 DEF TabFit
  <2>2. rq["login"] = new /\ rq["me"] = req[t]["me"] /\ rq["page"] = req[t]["page"]
    BY <1>11, PurposeNames
  <2>3. issued' = n
    BY <1>1
  <2> QED
    BY <1>2, <1>4, <1>10, <1>12, <2>1, <2>2, <2>3 DEF TabFit
<1>15. ServerTypes'
  BY <1>1, <1>2, <1>4, <1>9 DEF ServerTypes, counts
<1>16. SessionsOwned'
  <2>1. owner \in [Session -> User \cup {None}] /\ cookie \in 0..issued /\ \A s \in 1..issued : owner[s] \in User
    BY <1>2 DEF ServerTypes, SessionInv, SessionsOwned
  <2>2. \A s \in 1..n : s = n \/ s \in 1..issued
    BY <1>2 DEF n
  <2>3. \A s \in 1..n : s \in Session
    BY <1>9, SessionAssumption DEF Session, MAX_RETRIES
  <2>4. ASSUME NEW s \in 1..n PROVE owner'[s] \in User
    BY <1>1, <1>4, <2>1, <2>2, <2>3
  <2> QED
    BY <1>1, <1>12, <2>1, <2>4 DEF SessionsOwned
<1>17. SessionsBounded'
  <2>1. rq["login"] = new
    BY <1>11, PurposeNames
  <2>2. Chances(new) = Chances(q) - 1
    BY <1>5, <1>10, ChancesType DEF MAX_RETRIES
  <2>3. Pending' \subseteq P
    <3>1. ASSUME NEW p \in Pending' PROVE p \in P
      <4>1. CASE p[1] # t
        <5>1. p \in Pending
          BY <1>11, <4>1, PendingElsewhere
        <5> QED
          BY <4>1, <5>1
      <4>2. CASE p[1] = t
        <5>1. p[2] \in 1..MAX_RETRIES /\ p = <<t, p[2]>> /\ p[2] <= Chances(new)
          BY <1>11, <2>1, <4>2, PendingElsewhere
        <5>2. p[2] < Chances(q)
          BY <1>5, <2>2, <5>1 DEF MAX_RETRIES
        <5>3. p \in Pending
          BY <5>1, <5>2, <1>5 DEF Pending, q, MAX_RETRIES
        <5>4. p # <<t, Chances(q)>>
          BY <5>1, <5>2, <1>5
        <5> QED
          BY <5>3, <5>4
      <4> QED
        BY <4>1, <4>2
    <3> QED
      BY <3>1
  <2> HIDE DEF P
  <2>4. IsFiniteSet(Pending') /\ Cardinality(Pending') <= Cardinality(P)
    BY <1>8, <2>3, FS_Subset
  <2>5. Cardinality(Pending') \in Nat
    BY <2>4, FS_CardinalityType
  <2>6. submits' = submits /\ issued' = issued + 1
    BY <1>1 DEF counts, n
  <2> QED
    BY <1>2, <1>7, <1>8, <2>4, <2>5, <2>6 DEF SessionsBounded, MAX_RETRIES
<1>18. TabBecomes(t, path[t], stored[t], phase[t], form[t], from[t], rq) /\ issued <= issued'
  BY <1>1, <1>2, <1>11, Same DEF TabBecomes, tabs, n
<1> QED
  BY <1>13, <1>14, <1>15, <1>16, <1>17, <1>18, TabStep

-----------------------------------------------------------------------------
(* Type correctness.                                                       *)

LEMMA InitInv == Init => SessionInv
<1> SUFFICES ASSUME Init PROVE SessionInv
  OBVIOUS
<1>1. MaxSubmits \in Nat /\ MaxFaults \in Nat /\ MaxFailed \in Nat
  BY SessionAssumption
<1>2. req \in [Tab -> Calls] /\ \A t \in Tab : req[t] = NoCalls
  BY NoCallsType DEF Init, NoCalls
<1>3. TypeOK
  <2>1. req \in [Tab -> [Purpose -> Request]]
    BY <1>2 DEF Calls
  <2>2. form \in [Tab -> [user : User \cup {None}, right : BOOLEAN, tok : Session \cup {0}]]
    BY NoFormType DEF Init, Form
  <2> QED
    <3>1. path \in [Tab -> Page \cup {"login"}] /\ stored \in [Tab -> Stored \cup {NoAuth}]
          /\ phase \in [Tab -> Phase] /\ from \in [Tab -> Page \cup {None}]
      BY NamesType DEF Init
    <3>2. /\ owner \in [Session -> User \cup {None}] /\ failures \in [User -> 0..MaxFailed]
          /\ issued \in Session \cup {0} /\ cookie \in Session \cup {0}
          /\ revoked \in SUBSET Session /\ expired \in SUBSET Session
          /\ submits \in 0..MaxSubmits /\ faults \in 0..MaxFaults
      BY <1>1 DEF Init
    <3> QED
      BY <2>1, <2>2, <3>1, <3>2 DEF TypeOK
<1>4. SessionsOwned
  BY DEF Init, SessionsOwned
<1>5. TabsFit
  <2> SUFFICES ASSUME NEW t \in Tab PROVE TabFit(0, "login", "boot", NoForm, NoCalls)
    BY <1>2 DEF Init, TabsFit
  <2> QED
    BY NoCallsType, IdleType, NoFormType, PurposeNames DEF TabFit
<1>6. SessionsBounded
  <2>1. Pending = {}
    <3>1. \A t \in Tab : Chances(req[t]["login"]) = 0
      BY <1>2, NoCallsType
    <3> QED
      BY <3>1 DEF Pending, MAX_RETRIES
  <2> QED
    BY <2>1, FS_EmptySet DEF Init, SessionsBounded, MAX_RETRIES
<1> QED
  BY <1>3, <1>4, <1>5, <1>6 DEF SessionInv

LEMMA ExpireStep == ASSUME SessionInv, NEW s \in Session, Expire(s) PROVE SessionInv'
<1>1. TypeOK' /\ SessionsOwned' /\ TabsFit'
  BY DEF SessionInv, TypeOK, SessionsOwned, TabsFit, Expire, tabs, counts
<1>2. SessionsBounded'
  BY DEF SessionInv, SessionsBounded, Pending, Expire, counts
<1> QED
  BY <1>1, <1>2 DEF SessionInv

LEMMA StayInv == SessionInv /\ UNCHANGED vars => SessionInv'
<1> SUFFICES ASSUME SessionInv, UNCHANGED vars PROVE SessionInv'
  OBVIOUS
<1> USE DEF vars, server, tabs, counts
<1>1. TypeOK' /\ SessionsOwned' /\ TabsFit'
  BY DEF SessionInv, TypeOK, SessionsOwned, TabsFit
<1>2. SessionsBounded'
  BY DEF SessionInv, SessionsBounded, Pending
<1> QED
  BY <1>1, <1>2 DEF SessionInv

LEMMA WireStep ==
  ASSUME SessionInv, NEW t \in Tab, NEW k \in Purpose, Wire(t, k)
  PROVE  SessionInv'
BY FetchStep, RetryStep, ShowStep DEF Wire

LEMMA StepInv == SessionInv /\ [Next]_vars => SessionInv'
<1> SUFFICES ASSUME SessionInv, [Next]_vars PROVE SessionInv'
  OBVIOUS
<1>1. ASSUME NEW t \in Tab, LoginSide(t) PROVE SessionInv'
  <2>1. CASE ServeLogin(t)
    BY <2>1, RefusedStep, AcceptedStep
  <2>2. CASE Redirect(t)
    BY <2>2, ShowStep
  <2>3. CASE ServeMe(t)
    BY <2>3, ServeStep
  <2>4. CASE BootDone(t)
    BY <2>4, BootStep
  <2>5. CASE LoginOk(t)
    BY <2>5, LoginOkStep
  <2>6. CASE LoginFails(t)
    BY <2>6, LoginFailsStep
  <2>7. CASE SuccessPlayed(t)
    BY <2>7, SuccessPlayedStep
  <2>8. CASE MeOk(t) \/ MeFails(t)
    BY <2>8, MeEndsStep
  <2>9. CASE Wire(t, "login") \/ Wire(t, "me")
    BY <2>9, WireStep, PurposeNames
  <2> QED
    BY <1>1, <2>1, <2>2, <2>3, <2>4, <2>5, <2>6, <2>7, <2>8, <2>9 DEF LoginSide
<1>2. ASSUME NEW t \in Tab, PageCall(t) \/ PageSide(t) \/ LogoutSide(t) PROVE SessionInv'
  BY <1>2, PageStep, ServeStep, LogoutStep, WireStep, PurposeNames DEF PageSide, LogoutSide
<1>3. ASSUME NEW t \in Tab, Reload(t) \/ handleLogout(t) PROVE SessionInv'
  BY <1>3, ShowStep, LogoutBegins
<1>4. ASSUME NEW t \in Tab, NEW u \in User, NEW right \in BOOLEAN, handleLogin(t, u, right) PROVE SessionInv'
  BY <1>4, SubmitStep
<1>5. ASSUME NEW t \in Tab, NEW p \in Page, Open(t, p) PROVE SessionInv'
  BY <1>5, ShowStep
<1>6. ASSUME NEW t \in Tab, NEW k \in Purpose, Lose(t, k) \/ TimeOut(t, k) \/ ServeError(t, k) PROVE SessionInv'
  BY <1>6, BreaksStep
<1>7. ASSUME NEW s \in Session, Expire(s) PROVE SessionInv'
  BY <1>7, ExpireStep
<1>8. CASE UNCHANGED vars
  BY <1>8, StayInv
<1> QED
  BY <1>1, <1>2, <1>3, <1>4, <1>5, <1>6, <1>7, <1>8 DEF Next

\* A tab posts the login form, asks who it is and waits for an answer only in
\* the phase of the login page made for it, and what the form, the requests
\* and the cookie hold are sessions the server handed out: at most two for
\* every submitted form, because a failed login is posted once more (api.ts).
THEOREM SessionInvariance == Spec => []SessionInv
BY InitInv, StepInv, PTL DEF Spec

\* Every state of the tabs, the browser and the server is one of its type: no
\* login is answered with a session beyond the two its form may cost.
THEOREM TypeCorrect == Spec => []TypeOK
<1>1. SessionInv => TypeOK
  BY DEF SessionInv
<1> QED
  BY <1>1, SessionInvariance, PTL

-----------------------------------------------------------------------------
(* A call of a page keeps the promise of ApiCall.                          *)

callBar  == [t \in Tab |-> Promise(req[t]["page"])]
execsBar == [t \in Tab |-> req[t]["page"].execs]

LEMMA PageRequestSet ==
  ASSUME SessionInv, NEW t \in Tab, NEW r, Set(t, "page", r)
  PROVE  /\ callBar' = [callBar EXCEPT ![t] = Promise(r)]
         /\ execsBar' = [execsBar EXCEPT ![t] = r.execs]
         /\ callBar[t] = Promise(req[t]["page"]) /\ execsBar[t] = req[t]["page"].execs
<1>1. req \in [Tab -> [Purpose -> Request]] /\ req' = [req EXCEPT ![t] = [req[t] EXCEPT !["page"] = r]]
  BY DEF SessionInv, TypeOK, Set
<1>2. \A u \in Tab : req'[u]["page"] = IF u = t THEN r ELSE req[u]["page"]
  BY <1>1, PurposeNames
<1> QED
  BY <1>2 DEF callBar, execsBar

LEMMA OtherRequestSet ==
  ASSUME SessionInv, NEW t \in Tab, NEW k \in Purpose, k # "page", NEW r, Set(t, k, r)
  PROVE  callBar' = callBar /\ execsBar' = execsBar
<1>1. req \in [Tab -> [Purpose -> Request]] /\ req' = [req EXCEPT ![t] = [req[t] EXCEPT ![k] = r]]
  BY DEF SessionInv, TypeOK, Set
<1>2. \A u \in Tab : req'[u]["page"] = req[u]["page"]
  BY <1>1, PurposeNames
<1> QED
  BY <1>2 DEF callBar, execsBar

LEMMA SameCall ==
  ASSUME SessionInv, NEW t \in Tab, NEW r, Set(t, "page", r),
         Promise(r) = Promise(req[t]["page"]), r.execs = req[t]["page"].execs
  PROVE  callBar' = callBar /\ execsBar' = execsBar
<1>1. req \in [Tab -> [Purpose -> Request]] /\ req' = [req EXCEPT ![t] = [req[t] EXCEPT !["page"] = r]]
  BY DEF SessionInv, TypeOK, Set
<1>2. \A u \in Tab : req'[u]["page"] = IF u = t THEN r ELSE req[u]["page"]
  BY <1>1, PurposeNames
<1>3. \A u \in Tab : /\ Promise(req'[u]["page"]) = Promise(req[u]["page"])
                     /\ req'[u]["page"].execs = req[u]["page"].execs
  BY <1>2
<1> QED
  BY <1>3 DEF callBar, execsBar

LEMMA Unloaded ==
  ASSUME SessionInv, NEW t \in Tab, req' = [req EXCEPT ![t] = NoCalls]
  PROVE  /\ callBar' = [callBar EXCEPT ![t] = "none"] /\ execsBar' = [execsBar EXCEPT ![t] = 0]
<1>1. \A u \in Tab : req'[u] = IF u = t THEN NoCalls ELSE req[u]
  BY DEF SessionInv, TypeOK
<1>2. Promise(NoCalls["page"]) = "none" /\ NoCalls["page"].execs = 0
  BY NoCallsType, PurposeNames, IdleType DEF Promise, Busy
<1>3. /\ \A u \in Tab : Promise(req'[u]["page"]) = IF u = t THEN "none" ELSE callBar[u]
      /\ \A u \in Tab : req'[u]["page"].execs = IF u = t THEN 0 ELSE execsBar[u]
  BY <1>1, <1>2 DEF callBar, execsBar
<1>4. /\ callBar' = [u \in Tab |-> Promise(req'[u]["page"])]
      /\ execsBar' = [u \in Tab |-> req'[u]["page"].execs]
      /\ callBar = [u \in Tab |-> callBar[u]] /\ execsBar = [u \in Tab |-> execsBar[u]]
  BY DEF callBar, execsBar
<1> HIDE DEF callBar, execsBar
<1> QED
  BY <1>3, <1>4

CallStep == (\E t \in Tab : Api!Step(t)) \/ (callBar' = callBar /\ execsBar' = execsBar)

LEMMA IsCallStep ==
  ASSUME NEW t \in Tab,
         \/ /\ callBar[t] # "pending" /\ callBar' = [callBar EXCEPT ![t] = "pending"]
            /\ execsBar' = [execsBar EXCEPT ![t] = 0]
         \/ /\ callBar[t] = "pending" /\ execsBar[t] < 2 /\ callBar' = callBar
            /\ execsBar' = [execsBar EXCEPT ![t] = @ + 1]
         \/ /\ callBar[t] = "pending" /\ execsBar[t] > 0 /\ callBar' = [callBar EXCEPT ![t] = "ok"]
            /\ execsBar' = execsBar
         \/ /\ callBar[t] = "pending" /\ callBar' = [callBar EXCEPT ![t] = "failed"] /\ execsBar' = execsBar
         \/ /\ callBar' = [callBar EXCEPT ![t] = "none"] /\ execsBar' = [execsBar EXCEPT ![t] = 0]
  PROVE  CallStep
BY DEF CallStep, Api!Step, Api!Call, Api!Execute, Api!Resolve, Api!Reject, Api!Unload, Api!Settle,
       Api!MAX_RETRIES, callBar, execsBar

\* On the way from the page to the server and back the call stays pending.
LEMMA Travels ==
  ASSUME SessionInv, NEW t \in Tab, NEW k \in Purpose,
         Fetch(t, k) \/ Retry(t, k) \/ Lose(t, k) \/ TimeOut(t, k) \/ ServeError(t, k)
  PROVE  CallStep
<1> DEFINE q == req[t][k]
<1>1. /\ q \in Request /\ cookie \in Session \cup {0}
  BY RequestType
<1>2. PICK r : /\ Set(t, k, r) /\ r.execs = q.execs /\ Busy(q) /\ Busy(r)
  <2>1. CASE Fetch(t, k)
    <3>1. Set(t, k, Refetched(q)) /\ q.st = "ready"
      BY <2>1 DEF Fetch, Refetched
    <3> QED
      BY <1>1, <3>1, FetchedAgain DEF Busy
  <2>2. CASE Retry(t, k)
    <3>1. Set(t, k, Again(q)) /\ Failing(q) /\ q.attempt # MAX_RETRIES - 1
      BY <2>2 DEF Retry, LastTry, Again
    <3> QED
      BY <1>1, <3>1, TriedAgain DEF Busy, Failing
  <2>3. CASE Lose(t, k) \/ TimeOut(t, k) \/ ServeError(t, k)
    <3>1. PICK s \in {"lost", "timeout", "answered"}, a \in {"none", "busy", "error"} :
            Set(t, k, Moved(q, s, a)) /\ q.st \in {"sent", "answered"}
      BY <2>3 DEF Lose, TimeOut, ServeError, Reply, Moved
    <3>2. Moved(q, s, a).st = s /\ Moved(q, s, a).execs = q.execs
      BY <1>1, MovesOn DEF Answer, Stages
    <3> QED
      BY <3>1, <3>2 DEF Busy
  <2> QED
    BY <2>1, <2>2, <2>3
<1>3. CASE k = "page"
  <2>1. Promise(r) = Promise(q)
    BY <1>2 DEF Promise
  <2> QED
    BY <1>2, <1>3, <2>1, SameCall DEF CallStep
<1>4. CASE k # "page"
  BY <1>2, <1>4, OtherRequestSet DEF CallStep
<1> QED
  BY <1>3, <1>4

LEMMA CallBegins == ASSUME SessionInv, NEW t \in Tab, PageCall(t) PROVE CallStep
<1>1. Set(t, "page", Sent) /\ ~Busy(req[t]["page"])
  BY DEF PageCall, Begin, Sent
<1>2. Promise(Sent) = "pending" /\ Sent.execs = 0 /\ Promise(req[t]["page"]) # "pending"
  <2>1. cookie \in Session \cup {0}
    BY DEF SessionInv, TypeOK
  <2> QED
    BY <1>1, <2>1, SentType DEF Promise, Busy
<1> QED
  BY <1>1, <1>2, PageRequestSet, IsCallStep

LEMMA CallServed == ASSUME SessionInv, NEW t \in Tab, ServePage(t) PROVE CallStep
<1> DEFINE q == req[t]["page"]
<1>1. q \in Request /\ PageFit(q)
  BY RequestType, PurposeNames
<1>2. q.st = "sent" /\ (Set(t, "page", Executed(q)) \/ Set(t, "page", Moved(q, "answered", "401")))
  BY DEF ServePage, Done, Reply, Executed, Moved
<1>3. q.execs < 2 /\ q.execs < MAX_RETRIES /\ Promise(q) = "pending"
  BY <1>1, <1>2 DEF PageFit, Request, MAX_RETRIES, Promise, Busy
<1>4. CASE Set(t, "page", Executed(q))
  <2>1. Promise(Executed(q)) = "pending" /\ Executed(q).execs = q.execs + 1
    BY <1>1, <1>3, ExecutedOnce DEF Promise, Busy
  <2>2. /\ callBar' = [callBar EXCEPT ![t] = "pending"] /\ execsBar' = [execsBar EXCEPT ![t] = q.execs + 1]
        /\ callBar[t] = "pending" /\ execsBar[t] = q.execs
    BY <1>3, <1>4, <2>1, PageRequestSet
  <2>3. callBar' = callBar /\ execsBar' = [execsBar EXCEPT ![t] = @ + 1]
    BY <2>2 DEF callBar
  <2> QED
    BY <1>3, <2>2, <2>3, IsCallStep
<1>5. CASE Set(t, "page", Moved(q, "answered", "401"))
  <2>1. Promise(Moved(q, "answered", "401")) = Promise(q) /\ Moved(q, "answered", "401").execs = q.execs
    BY <1>1, <1>3, MovesOn DEF Promise, Busy, Answer, Stages
  <2> QED
    BY <1>5, <2>1, SameCall DEF CallStep
<1> QED
  BY <1>2, <1>4, <1>5

LEMMA CallEnds == ASSUME SessionInv, NEW t \in Tab, PageOk(t) \/ PageFails(t) PROVE CallStep
<1> DEFINE q == req[t]["page"]
<1>1. q \in Request /\ PageFit(q)
  BY RequestType, PurposeNames
<1>2. PICK e \in {"ok", "failed"} : /\ Set(t, "page", EndedAs(q, e)) /\ Busy(q)
                                    /\ e = "ok" => Good(q)
  BY DEF PageOk, PageFails, Resolves, Rejects, Failing, Busy, Good, EndedAs
<1>3. /\ EndedAs(q, e).st = e /\ EndedAs(q, e).execs = q.execs
  BY <1>1, Ended
<1>4. Promise(q) = "pending" /\ Promise(EndedAs(q, e)) = e /\ (e = "ok" => q.execs > 0)
  BY <1>1, <1>2, <1>3 DEF Promise, Busy, PageFit
<1>5. /\ callBar' = [callBar EXCEPT ![t] = e] /\ execsBar' = [execsBar EXCEPT ![t] = q.execs]
      /\ callBar[t] = "pending" /\ execsBar[t] = q.execs
  BY <1>2, <1>3, <1>4, PageRequestSet
<1>6. execsBar' = execsBar
  BY <1>5 DEF execsBar
<1> QED
  BY <1>4, <1>5, <1>6, IsCallStep

LEMMA PageUnloads ==
  ASSUME SessionInv, NEW t \in Tab, Reload(t) \/ \E k \in Purpose : Expelled(t, k)
  PROVE  CallStep
<1>1. req' = [req EXCEPT ![t] = NoCalls]
  BY DEF Reload, Expelled, LoadLogin, NoCalls
<1> QED
  BY <1>1, Unloaded, IsCallStep

\* The steps that concern no call of a page.
LEMMA OtherStep ==
  ASSUME SessionInv, NEW t \in Tab,
         \/ LoginOk(t) \/ LoginFails(t) \/ SuccessPlayed(t) \/ MeOk(t) \/ MeFails(t)
         \/ ServeLogin(t) \/ ServeMe(t) \/ LogoutOk(t) \/ LogoutFails(t) \/ ServeLogout(t)
         \/ handleLogout(t) \/ \E u \in User, right \in BOOLEAN : handleLogin(t, u, right)
  PROVE  CallStep
<1>1. PICK k \in {"login", "me", "logout"} : \E r : Set(t, k, r)
  BY DEF LoginOk, LoginFails, SuccessPlayed, MeOk, MeFails, ServeLogin, ServeMe, LogoutOk,
         LogoutFails, ServeLogout, handleLogout, handleLogin, Begin, Reply
<1>2. k \in Purpose /\ k # "page"
  BY DEF Purpose
<1> QED
  BY <1>1, <1>2, OtherRequestSet DEF CallStep

LEMMA SameRequests ==
  UNCHANGED req => CallStep
<1> SUFFICES ASSUME req' = req PROVE CallStep
  OBVIOUS
<1>1. callBar' = callBar /\ execsBar' = execsBar
  BY DEF callBar, execsBar
<1> QED
  BY <1>1 DEF CallStep

LEMMA StepIsCallStep == SessionInv /\ [Next]_vars => CallStep
<1> SUFFICES ASSUME SessionInv, [Next]_vars PROVE CallStep
  OBVIOUS
<1>1. ASSUME NEW t \in Tab, NEW k \in Purpose, Wire(t, k) PROVE CallStep
  BY <1>1, Travels, PageUnloads DEF Wire
<1>2. ASSUME NEW t \in Tab, LoginSide(t) PROVE CallStep
  <2>1. CASE BootDone(t) \/ Redirect(t)
    BY <2>1, SameRequests DEF BootDone, Redirect
  <2>2. CASE Wire(t, "login") \/ Wire(t, "me")
    BY <2>2, <1>1, PurposeNames
  <2> QED
    BY <1>2, <2>1, <2>2, OtherStep DEF LoginSide
<1>3. ASSUME NEW t \in Tab, PageCall(t) \/ PageSide(t) PROVE CallStep
  BY <1>1, <1>3, CallBegins, CallServed, CallEnds, PurposeNames DEF PageSide
<1>4. ASSUME NEW t \in Tab, LogoutSide(t) PROVE CallStep
  BY <1>1, <1>4, OtherStep, PurposeNames DEF LogoutSide
<1>5. ASSUME NEW t \in Tab, Reload(t) \/ handleLogout(t) PROVE CallStep
  BY <1>5, PageUnloads, OtherStep
<1>6. ASSUME NEW t \in Tab, NEW u \in User, NEW right \in BOOLEAN, handleLogin(t, u, right) PROVE CallStep
  BY <1>6, OtherStep
<1>7. ASSUME NEW t \in Tab, NEW p \in Page, Open(t, p) PROVE CallStep
  BY <1>7, SameRequests DEF Open
<1>8. ASSUME NEW t \in Tab, NEW k \in Purpose, Lose(t, k) \/ TimeOut(t, k) \/ ServeError(t, k) PROVE CallStep
  BY <1>8, Travels
<1>9. ASSUME NEW s \in Session, Expire(s) PROVE CallStep
  BY <1>9, SameRequests DEF Expire
<1>10. CASE UNCHANGED vars
  BY <1>10, SameRequests DEF vars
<1> QED
  BY <1>2, <1>3, <1>4, <1>5, <1>6, <1>7, <1>8, <1>9, <1>10 DEF Next

\* What request() of api.ts promises whoever awaits it, in a tab that may be
\* expelled or reloaded at any time: the server executes a call at most twice
\* and at least once before it resolves; every step of the client, the network
\* and the server is a step of ApiCall or none of its business.
THEOREM RequestKeepsPromise == Spec => ImplementsApiCall
<1>1. Init => Api!Init
  <2> SUFFICES ASSUME Init PROVE Api!Init
    OBVIOUS
  <2>1. \A t \in Tab : req[t]["page"] = Idle
    BY PurposeNames DEF Init
  <2>2. \A t \in Tab : Promise(req[t]["page"]) = "none" /\ req[t]["page"].execs = 0
    BY <2>1, IdleType DEF Promise, Busy
  <2> QED
    BY <2>2 DEF Api!Init
<1>2. SessionInv /\ [Next]_vars => [Api!Next]_(Api!vars)
  BY StepIsCallStep DEF CallStep, Api!Next, Api!vars, callBar, execsBar
<1> QED
  BY <1>1, <1>2, SessionInvariance, PTL DEF Spec, ImplementsApiCall, Api!Spec
=============================================================================
