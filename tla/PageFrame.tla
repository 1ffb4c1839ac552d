------------------------------ MODULE PageFrame -------------------------------
(***************************************************************************)
(* One page of the console at work: its component state f, the query cache *)
(* q behind it, the calls of both, and the table db on the server that the *)
(* page shows.  The analyst may leave the page and return: f starts anew,  *)
(* q stays, and the calls in flight go on.                                 *)
(***************************************************************************)
EXTENDS PageCalls

CONSTANTS
  Row,            \* identities of the rows of a table
  Self,           \* the row of the signed-in user, or any
  None,           \* no row
  Role,           \* role of the signed-in user
  MaxEvents,      \* bound: calls that change something, changes made by
                  \* somebody else, departures and faults, together
  MaxMoves        \* bound: changes of filter, search text and page number; none
                  \* is made after as many events

ASSUME FrameAssumption ==
  /\ Self \in Row /\ None \notin Row /\ Role \in {"admin", "operator", "viewer"}
  /\ MaxEvents \in Nat /\ MaxMoves \in Nat

VARIABLES
  page, mounted,  \* the page, and whether it is on the screen
  f, q,           \* its state, and its entry in the query cache
  db,             \* the table on the server
  used            \* events so far

frame == <<page, mounted, f, q, db, used, net, faults>>

isAdmin == Role = "admin"
canEdit == Role \in {"admin", "operator"}

Arg(r, v)  == [row |-> r, val |-> v]
Result(v, rows, r) == [ver |-> v, rows |-> rows, new |-> r]

\* The cache entry: the data with the version of the table it shows, whether
\* the last fetch failed, and whether the entry was invalidated.
NoData == [have |-> FALSE, ver |-> 0, rows |-> Nothing, err |-> FALSE, inv |-> FALSE]

OnPage(p) == page = p /\ mounted

\* A row is absent, or on (active, online, enabled, in force) or off.
Value    == {"none", "on", "off"}
Rows(S)  == {r \in Row : S[r] # "none"}
Table(S) == [ver |-> 0, rows |-> [r \in Row |-> IF r \in S THEN "on" ELSE "none"]]
MaxVersion   == 2 * MaxEvents
TableTypeOK  == /\ db.rows \in [Row -> Value] /\ db.ver \in 0..MaxVersion
                /\ q.ver <= db.ver /\ q.have => q.rows \in [Row -> Value]

FrameInit == faults = 0 /\ mounted = TRUE

FrameTypeOK ==
  /\ CallsTypeOK /\ mounted \in BOOLEAN
  /\ used \in 0..MaxEvents
  /\ DOMAIN q = DOMAIN NoData /\ q.have \in BOOLEAN /\ q.err \in BOOLEAN /\ q.inv \in BOOLEAN

Event == used < MaxEvents /\ used' = used + 1

-----------------------------------------------------------------------------
(* useQuery: one fetch at a time, tried once more when it was rejected.    *)

IsList(call)    == call.st # "idle" /\ call.kind = "list"
ListFlying      == \E c \in Slot : IsList(net[c])
Unlisted(n)     == [c \in Slot |-> IF IsList(n[c]) THEN NoCall ELSE n[c]]
Fetch(n, who)   == With(n, "list", Arg(who, "first"), TRUE)

\* A mounted query that has data is fetched again, in place of a fetch in
\* flight; the first fetch is waited for; without observers the entry is
\* only marked.
Invalidate(n) == IF ~mounted THEN n
                 ELSE IF q.have \/ ~ListFlying THEN Fetch(Unlisted(n), "page") ELSE n
Marked        == [q EXCEPT !.inv = ~mounted \/ (~q.have /\ ListFlying)]

ServeList(c) ==
  /\ Asked(c, "list") /\ Serve(c, TRUE, Result(db.ver, db.rows, None))
  /\ UNCHANGED <<page, mounted, f, q, db, used, faults>>

Arrived(c)  == [q EXCEPT !.have = TRUE, !.ver = net[c].res.ver, !.rows = net[c].res.rows, !.err = FALSE, !.inv = FALSE]
LastFetch(c) == Rejected(c, "list") /\ net[c].arg.val = "again"
FetchAgain(c) ==
  /\ Rejected(c, "list") /\ net[c].arg.val = "first"
  /\ net' = With(Without(net, c), "list", [net[c].arg EXCEPT !.val = "again"], net[c].live)
  /\ UNCHANGED <<page, mounted, f, q, db, used, faults>>

-----------------------------------------------------------------------------
(* The server.  A change of an absent row is refused.                      *)

Writes(c, ok, rows, r) ==
  /\ Serve(c, ok, IF ok THEN Result(db.ver + 1, rows, r) ELSE Nothing)
  /\ db' = IF ok THEN [ver |-> db.ver + 1, rows |-> rows] ELSE db
  /\ UNCHANGED <<page, mounted, f, q, used, faults>>
Write(c, ok, rows) == Writes(c, ok, rows, net[c].arg.row)
Exists(c) == db.rows[net[c].arg.row] # "none"
Put(c, v) == [db.rows EXCEPT ![net[c].arg.row] = v]

\* The identity of a user and of a device is the page's and is taken once;
\* anything else gets one of its own while there is one (a bound).
ServeCreate(c) ==
  /\ Asked(c, "create") \/ Asked(c, "copy")
  /\ IF page \in {"users", "devices", "accounts"} THEN Write(c, ~Exists(c), Put(c, "on"))
     ELSE LET free == Row \ Rows(db.rows) IN
          \/ free = {} /\ Write(c, FALSE, db.rows)
          \/ \E r \in free : Writes(c, TRUE, [db.rows EXCEPT ![r] = "on"], r)
ServeSet(c)    == (Asked(c, "set") \/ Asked(c, "put")) /\ Write(c, Exists(c), Put(c, net[c].arg.val))
ServeToggle(c) == Asked(c, "toggle") /\ Write(c, Exists(c), Put(c, IF db.rows[net[c].arg.row] = "on" THEN "off" ELSE "on"))
ServeEdit(c)   == (Asked(c, "edit") \/ Asked(c, "reset") \/ Asked(c, "use")) /\ Write(c, Exists(c), db.rows)
ServeDelete(c) == Asked(c, "delete") /\ Write(c, Exists(c), Put(c, "none"))
ServeChange(c) == ServeCreate(c) \/ ServeSet(c) \/ ServeToggle(c) \/ ServeEdit(c) \/ ServeDelete(c)

\* Somebody else works on the same table.
Other(r, v) ==
  /\ r # Self /\ db.rows[r] # v /\ Event
  /\ db' = [ver |-> db.ver + 1, rows |-> [db.rows EXCEPT ![r] = v]]
  /\ UNCHANGED <<page, mounted, f, q, net, faults>>

-----------------------------------------------------------------------------
(* Steps of the page, and what ends them.                                  *)

Does(new)      == mounted /\ f' = new /\ UNCHANGED <<page, mounted, q, db, used, net, faults>>
Calls(new, k, a) == /\ mounted /\ Event /\ Room(1) /\ f' = new /\ net' = With(net, k, a, TRUE)
                    /\ UNCHANGED <<page, mounted, q, db, faults>>
\* The code after an await; it finds no page when the page was left.
Then(c, new, n) == /\ f' = IF net[c].live THEN new ELSE f
                   /\ net' = n
                   /\ UNCHANGED <<page, mounted, q, db, used, faults>>

\* Leaving; closed is the state of a page that is not on the screen.
Leaves(closed) ==
  /\ mounted /\ Event
  /\ mounted' = FALSE /\ f' = closed
  /\ net' = Orphaned(net)
  /\ UNCHANGED <<page, q, db, faults>>
\* Returning; the entry is fetched when it is stale, which after staleTime
\* every entry is.
Returns(new) ==
  /\ ~mounted /\ mounted' = TRUE /\ f' = new
  /\ \/ ~ListFlying /\ Room(1) /\ net' = Fetch(net, "page")
     \/ (ListFlying \/ (q.have /\ ~q.inv)) /\ UNCHANGED net
  /\ UNCHANGED <<page, q, db, used, faults>>

Unserved(c) ==
  /\ net[c].st = "sent" /\ faults < MaxFaults /\ faults' = faults + 1
  /\ Serve(c, FALSE, Nothing) /\ Event
  /\ UNCHANGED <<page, mounted, f, q, db>>
\* The server is away for all the attempts of a fetch.
Outage(c) ==
  /\ Asked(c, "list") /\ faults < MaxFaults /\ faults' = faults + 1
  /\ net' = [net EXCEPT ![c].st = "broken", ![c].arg.val = "again"] /\ Event
  /\ UNCHANGED <<page, mounted, f, q, db>>
Retries(c) == Again(c) /\ UNCHANGED <<page, mounted, f, q, db, used>>
Breaks(c)  == (Lose(c) \/ TimeOut(c)) /\ Event /\ UNCHANGED <<page, mounted, f, q, db>>
=============================================================================
