--------------------------- MODULE WebConsoleProofs ---------------------------
(***************************************************************************)
(* The search pages and the timeline page, for any number of rows, calls   *)
(* in flight, events and faults, and what holds of all the pages of an     *)
(* incident.                                                               *)
(***************************************************************************)
EXTENDS LiveConsoleProofs

-----------------------------------------------------------------------------
(* The pages that search.                                                  *)

Items       == UNION {[S -> Value] : S \in SUBSET Row}
Totals      == {0} \cup {Cardinality(S) : S \in SUBSET Row}
Entries     == [have : BOOLEAN, ver : Nat, items : Items, total : Totals, inv : BOOLEAN]
SearchDbs   == [ver : Nat, rows : [Row -> Value]]
SearchQs    == [have : BOOLEAN, ver : {0}, rows : [ShownKeys -> Entries], err : BOOLEAN, inv : BOOLEAN]
SearchFs    == [text : {"", "self"}, search : {"", "self"}, flt : {"all", "on"}, no : 1..2, sel : SUBSET Row,
                open : {"no", "ask", "told"}, busy : {"no", "post", "reload"}, wait : ShownKeys, closed : SUBSET Row, moves : Nat]
RowsCalls   == CallsOf({"rows"}, [key : ShownKeys, val : {"first", "again"}], Entries)
BulkCalls   == CallsOf({"bulk"}, [row : Row, sent : SUBSET Row, id : Nat, lost : BOOLEAN], {Nothing})
ImportCalls == CallsOf({"import"}, {Nothing}, {Nothing})
SearchCalls == {NoCall} \cup RowsCalls \cup BulkCalls \cup ImportCalls

\* One fetch for a key at a time; it brings rows that fit the key, and nothing
\* older than what the key shows.
Fits(k, e) == \A r \in DOMAIN e.items : (k.flt = "all" \/ e.items[r] = k.flt) /\ (k.search = "" \/ r = Self)
Shown(e, d) == \A k \in ShownKeys : Fits(k, e.rows[k]) /\ e.rows[k].ver <= d.ver
Fetches(e, d, n) ==
  \A c \in Slot : n[c].kind = "rows" =>
    /\ n[c].st = "answered" /\ n[c].ok => /\ Fits(n[c].arg.key, n[c].res)
                                          /\ e.rows[n[c].arg.key].ver <= n[c].res.ver /\ n[c].res.ver <= d.ver
    /\ \A b \in Slot : n[b].kind = "rows" /\ n[b].arg.key = n[c].arg.key => b = c

\* What a batch has to close is closed, or its request is in flight, until one
\* of its requests was refused.
Batches(p, d, n) ==
  \A c \in Slot : n[c].kind = "bulk" =>
    /\ p = "dashboard"
    /\ n[c].st = "answered" /\ n[c].ok => d.rows[n[c].arg.row] = "off"
    /\ ~n[c].arg.lost => \A r \in n[c].arg.sent :
         d.rows[r] = "off" \/ \E b \in Slot : n[b].kind = "bulk" /\ n[b].arg.id = n[c].arg.id /\ n[b].arg.row = r
AreClosed(p, g, d) == IsFiniteSet(g.sel) /\ (p = "dashboard" => \A r \in g.closed : d.rows[r] = "off")

\* The dialog is blocked by a call in flight.
Flown(n, k) == \E c \in Slot : n[c].kind = "rows" /\ n[c].arg.key = k
Blocked(p, on, g, n) ==
  /\ \A c \in Slot : n[c].kind = "import" => p = "iocs" /\ (n[c].live => on = TRUE)
  /\ p # "iocs" \/ on # TRUE => g.busy = "no"
  /\ g.busy = "post" => Held(n, "import")
  /\ g.busy = "reload" => Flown(n, g.wait)

SearchOK(p, on, g, e, d, n) ==
  /\ on \in BOOLEAN /\ d \in SearchDbs /\ e \in SearchQs /\ g \in SearchFs /\ n \in [Slot -> SearchCalls]
  /\ Shown(e, d) /\ Fetches(e, d, n) /\ Batches(p, d, n) /\ AreClosed(p, g, d) /\ Blocked(p, on, g, n)
SearchInv == SearchOK(page, mounted, f, q, db, net) /\ used \in Nat

\* The calls by their kinds.
LEMMA SearchCallIs ==
  /\ Calling(SearchCalls)
  /\ \A k \in SearchCalls :
       /\ k.kind \in {"none"} \cup SearchKinds
       /\ k.kind = "rows" => k \in RowsCalls
       /\ k.kind = "bulk" => k \in BulkCalls
       /\ k.kind = "import" => k \in ImportCalls
       /\ k.kind = "none" => k = NoCall
       /\ k.st = "idle" <=> k.kind = "none"
       /\ k.live \in BOOLEAN /\ k.ok \in BOOLEAN
<1>1. \A K, A, R : \A n \in CallsOf(K, A, R) : n.kind \in K /\ n.st # "idle" /\ n.live \in BOOLEAN /\ n.ok \in BOOLEAN
  BY DEF CallsOf
<1>2. NoCall.kind = "none" /\ NoCall.st = "idle" /\ NoCall.live \in BOOLEAN /\ NoCall.ok \in BOOLEAN
  BY DEF NoCall
<1>3. \A k \in RowsCalls : k.kind = "rows" /\ k.st # "idle" /\ k.live \in BOOLEAN /\ k.ok \in BOOLEAN
  BY <1>1 DEF RowsCalls
<1>4. \A k \in BulkCalls : k.kind = "bulk" /\ k.st # "idle" /\ k.live \in BOOLEAN /\ k.ok \in BOOLEAN
  BY <1>1 DEF BulkCalls
<1>5. \A k \in ImportCalls : k.kind = "import" /\ k.st # "idle" /\ k.live \in BOOLEAN /\ k.ok \in BOOLEAN
  BY <1>1 DEF ImportCalls
<1>6. NoCall \in SearchCalls /\ \A k \in SearchCalls : k = NoCall \/ k \in RowsCalls \/ k \in BulkCalls \/ k \in ImportCalls
  BY DEF SearchCalls
<1> QED
  BY <1>2, <1>3, <1>4, <1>5, <1>6 DEF SearchKinds, Calling

\* The arguments of the calls.
LEMMA SearchArgs ==
  ASSUME NEW k \in SearchCalls
  PROVE  /\ k.kind = "rows" => k.arg \in [key : ShownKeys, val : {"first", "again"}] /\ (k.st = "answered" /\ k.ok => k.res \in Entries)
         /\ k.kind = "bulk" => k.arg \in [row : Row, sent : SUBSET Row, id : Nat, lost : BOOLEAN]
<1>1. \A K, A, R : \A n \in CallsOf(K, A, R) : n.arg \in A /\ (n.st = "answered" /\ n.ok => n.res \in R)
  BY DEF CallsOf
<1>2. CASE k.kind = "rows"
  <2>1. k \in RowsCalls
    BY <1>2, SearchCallIs
  <2> QED
    BY <1>1, <1>2, <2>1 DEF RowsCalls
<1>3. CASE k.kind = "bulk"
  <2>1. k \in BulkCalls
    BY <1>3, SearchCallIs
  <2> QED
    BY <1>1, <1>3, <2>1 DEF BulkCalls
<1> QED
  BY <1>2, <1>3

\* A call in flight moves on, or is answered.
LEMMA SearchCallStep ==
  ASSUME SearchInv, page' = page, mounted' = mounted, f' = f, q' = q, used' \in Nat, db' \in SearchDbs, db.ver <= db'.ver,
         page = "dashboard" => \A r \in Row : db.rows[r] = "off" => db'.rows[r] = "off",
         NEW c \in Slot, NEW k \in SearchCalls, net' = [net EXCEPT ![c] = k], k.kind = net[c].kind, k.live = net[c].live,
         net[c].kind = "rows" => /\ k.arg.key = net[c].arg.key
                                 /\ k.st = "answered" /\ k.ok =>
                                      Fits(k.arg.key, k.res) /\ q.rows[k.arg.key].ver <= k.res.ver /\ k.res.ver <= db'.ver,
         net[c].kind = "bulk" => /\ k.arg = net[c].arg
                                 /\ k.st = "answered" /\ k.ok => db'.rows[k.arg.row] = "off"
  PROVE  SearchInv'
<1>1. SearchOK(page, mounted, f, q, db, net)
  BY DEF SearchInv
<1>2. net \in [Slot -> SearchCalls] /\ net' \in [Slot -> SearchCalls] /\ net'[c] = k /\ \A b \in Slot : b # c => net'[b] = net[b]
  BY <1>1 DEF SearchOK
<1>3. /\ db \in SearchDbs /\ q \in SearchQs /\ f \in SearchFs /\ Shown(q, db) /\ Fetches(q, db, net) /\ Batches(page, db, net)
      /\ AreClosed(page, f, db) /\ Blocked(page, mounted, f, net)
  BY <1>1 DEF SearchOK
<1>4. \A b \in Slot : /\ net'[b].kind = net[b].kind /\ net'[b].live = net[b].live
                      /\ net[b].kind = "rows" => net'[b].arg.key = net[b].arg.key
                      /\ net[b].kind = "bulk" => net'[b].arg = net[b].arg
  BY <1>2
<1>5. db.ver \in Nat /\ db'.ver \in Nat /\ \A j \in ShownKeys : q.rows[j].ver \in Nat
  BY <1>3 DEF SearchDbs, SearchQs, Entries
<1>6. Shown(q, db')
  BY <1>3, <1>5 DEF Shown
<1>7. Fetches(q, db', net')
  <2>1. ASSUME NEW b \in Slot, net'[b].kind = "rows", net'[b].st = "answered", net'[b].ok
        PROVE  /\ Fits(net'[b].arg.key, net'[b].res) /\ q.rows[net'[b].arg.key].ver <= net'[b].res.ver
               /\ net'[b].res.ver <= db'.ver
    <3>1. CASE b = c
      BY <1>2, <1>4, <2>1, <3>1
    <3>2. CASE b # c
      <4>1. net'[b] = net[b]
        BY <1>2, <3>2
      <4>2. Fits(net[b].arg.key, net[b].res) /\ q.rows[net[b].arg.key].ver <= net[b].res.ver /\ net[b].res.ver <= db.ver
        BY <1>3, <2>1, <4>1 DEF Fetches
      <4>3. net[b].res.ver \in Nat
        BY <1>2, <2>1, <4>1, SearchArgs DEF Entries
      <4> QED
        BY <1>5, <4>1, <4>2, <4>3
    <3> QED
      BY <3>1, <3>2
  <2>2. \A b, a \in Slot : net'[b].kind = "rows" /\ net'[a].kind = "rows" /\ net'[a].arg.key = net'[b].arg.key => a = b
    BY <1>3, <1>4 DEF Fetches
  <2> QED
    BY <2>1, <2>2 DEF Fetches
<1>8. Batches(page, db', net')
  <2> SUFFICES ASSUME NEW b \in Slot, net'[b].kind = "bulk"
               PROVE  /\ page = "dashboard"
                      /\ net'[b].st = "answered" /\ net'[b].ok => db'.rows[net'[b].arg.row] = "off"
                      /\ ~net'[b].arg.lost => \A r \in net'[b].arg.sent :
                           db'.rows[r] = "off" \/ \E a \in Slot : net'[a].kind = "bulk" /\ net'[a].arg.id = net'[b].arg.id /\ net'[a].arg.row = r
    BY DEF Batches
  <2>1. net[b].kind = "bulk" /\ net'[b].arg = net[b].arg /\ page = "dashboard"
    BY <1>3, <1>4 DEF Batches
  <2>2. net[b].arg.row \in Row /\ net[b].arg.sent \subseteq Row
    BY <1>2, <2>1, SearchArgs
  <2>3. net'[b].st = "answered" /\ net'[b].ok => db'.rows[net'[b].arg.row] = "off"
    <3>1. CASE b = c
      BY <1>2, <2>1, <3>1
    <3>2. CASE b # c
      BY <1>2, <1>3, <2>1, <2>2, <3>2 DEF Batches
    <3> QED
      BY <3>1, <3>2
  <2>4. ASSUME ~net'[b].arg.lost, NEW r \in net'[b].arg.sent, db'.rows[r] # "off"
        PROVE  \E a \in Slot : net'[a].kind = "bulk" /\ net'[a].arg.id = net'[b].arg.id /\ net'[a].arg.row = r
    <3>1. db.rows[r] # "off" /\ ~net[b].arg.lost /\ r \in net[b].arg.sent
      BY <2>1, <2>2, <2>4
    <3>2. PICK a \in Slot : net[a].kind = "bulk" /\ net[a].arg.id = net[b].arg.id /\ net[a].arg.row = r
      BY <1>3, <2>1, <3>1 DEF Batches
    <3> QED
      BY <1>4, <2>1, <3>2
  <2> QED
    BY <2>1, <2>3, <2>4
<1>9. AreClosed(page, f, db')
  BY <1>3 DEF AreClosed, SearchFs
<1>10. Blocked(page, mounted, f, net')
  <2>1. Held(net, "import") => Held(net', "import")
    BY <1>4 DEF Held
  <2>2. Flown(net, f.wait) => Flown(net', f.wait)
    BY <1>4 DEF Flown
  <2>3. \A b \in Slot : net'[b].kind = "import" => page = "iocs" /\ (net'[b].live => mounted = TRUE)
    BY <1>3, <1>4 DEF Blocked
  <2>4. /\ page # "iocs" \/ mounted # TRUE => f.busy = "no"
        /\ f.busy = "post" => Held(net, "import")
        /\ f.busy = "reload" => Flown(net, f.wait)
    BY <1>3 DEF Blocked
  <2> QED
    BY <2>1, <2>2, <2>3, <2>4 DEF Blocked
<1>11. SearchOK(page, mounted, f, q, db', net')
  BY <1>1, <1>2, <1>6, <1>7, <1>8, <1>9, <1>10 DEF SearchOK
<1> QED
  BY <1>11 DEF SearchInv

\* Somebody else changes the table.
LEMMA SearchDbStep ==
  ASSUME SearchInv, page' = page, mounted' = mounted, f' = f, q' = q, net' = net, used' \in Nat, db' \in SearchDbs, db.ver <= db'.ver,
         page = "dashboard" => \A r \in Row : db.rows[r] = "off" => db'.rows[r] = "off"
  PROVE  SearchInv'
<1>1. SearchOK(page, mounted, f, q, db, net)
  BY DEF SearchInv
<1>2. /\ db \in SearchDbs /\ q \in SearchQs /\ f \in SearchFs /\ net \in [Slot -> SearchCalls]
      /\ Shown(q, db) /\ Fetches(q, db, net) /\ Batches(page, db, net) /\ AreClosed(page, f, db)
  BY <1>1 DEF SearchOK
<1>3. db.ver \in Nat /\ db'.ver \in Nat /\ \A j \in ShownKeys : q.rows[j].ver \in Nat
  BY <1>2 DEF SearchDbs, SearchQs, Entries
<1>4. Shown(q, db')
  BY <1>2, <1>3 DEF Shown
<1>5. Fetches(q, db', net)
  <2>1. \A b \in Slot : net[b].kind = "rows" /\ net[b].st = "answered" /\ net[b].ok => net[b].res.ver \in Nat
    BY <1>2, SearchArgs DEF Entries
  <2> QED
    BY <1>2, <1>3, <2>1 DEF Fetches
<1>6. Batches(page, db', net)
  <2>1. \A b \in Slot : net[b].kind = "bulk" => net[b].arg.row \in Row /\ net[b].arg.sent \subseteq Row
    BY <1>2, SearchArgs
  <2> QED
    BY <1>2, <2>1 DEF Batches
<1>7. AreClosed(page, f, db')
  BY <1>2 DEF AreClosed, SearchFs
<1>8. SearchOK(page, mounted, f, q, db', net)
  BY <1>1, <1>4, <1>5, <1>6, <1>7 DEF SearchOK
<1> QED
  BY <1>8 DEF SearchInv

\* A call of these pages is one of three.
LEMMA SearchCallOf ==
  ASSUME NEW m \in SearchCalls, m.kind # "none"
  PROVE  \E K, A, R : /\ m \in CallsOf(K, A, R) /\ CallsOf(K, A, R) \subseteq SearchCalls
                      /\ (m.kind = "rows" => R = Entries) /\ (m.kind # "rows" => R = {Nothing})
<1>1. m \in RowsCalls \/ m \in BulkCalls \/ m \in ImportCalls
  BY SearchCallIs DEF SearchKinds
<1>2. RowsCalls \subseteq SearchCalls /\ BulkCalls \subseteq SearchCalls /\ ImportCalls \subseteq SearchCalls
  BY DEF SearchCalls
<1>3. \A K, A, R : \A n \in CallsOf(K, A, R) : n.kind \in K
  BY DEF CallsOf
<1>4. CASE m \in RowsCalls
  BY <1>2, <1>3, <1>4 DEF RowsCalls
<1>5. CASE m \in BulkCalls
  BY <1>2, <1>3, <1>5 DEF BulkCalls
<1>6. CASE m \in ImportCalls
  BY <1>2, <1>3, <1>6 DEF ImportCalls
<1> QED
  BY <1>1, <1>4, <1>5, <1>6

\* The network, on these pages.
LEMMA SearchNetKeeps == \A c \in Slot : SearchInv /\ (Retries(c) \/ Breaks(c) \/ Unserved(c)) => SearchInv'
<1> SUFFICES ASSUME NEW c \in Slot, SearchInv, Retries(c) \/ Breaks(c) \/ Unserved(c) PROVE SearchInv'
  OBVIOUS
<1>1. net \in [Slot -> SearchCalls] /\ db \in SearchDbs
  BY DEF SearchInv, SearchOK
<1>2. PICK k : Moved(net[c], k) /\ net' = [net EXCEPT ![c] = k]
  BY <1>1, OneSlot
<1>3. net[c].st # "idle" /\ UNCHANGED <<page, mounted, f, q, db>>
  BY <1>1, OneSlot
<1> DEFINE m == net[c]
<1>4. m \in SearchCalls /\ m.kind # "none"
  BY <1>1, <1>3, SearchCallIs
<1> HIDE DEF m
<1>5. k \in SearchCalls /\ k.kind = m.kind /\ k.arg = m.arg /\ k.live = m.live /\ ~(k.st = "answered" /\ k.ok)
  <2>1. PICK K, A, R : m \in CallsOf(K, A, R) /\ CallsOf(K, A, R) \subseteq SearchCalls
    BY <1>4, SearchCallOf
  <2>2. Moved(m, k)
    BY <1>2 DEF m
  <2>3. k \in CallsOf(K, A, R) /\ k.kind = m.kind /\ k.arg = m.arg /\ k.live = m.live /\ ~(k.st = "answered" /\ k.ok)
    BY <2>1, <2>2, MovedCall
  <2> QED
    BY <2>1, <2>3
<1>6. db.ver <= db.ver
  BY <1>1 DEF SearchDbs
<1>7. used' \in Nat
  <2>1. used \in Nat
    BY DEF SearchInv
  <2>2. used' = used \/ used' = used + 1
    BY DEF Retries, Breaks, Unserved, Event
  <2> QED
    BY <2>1, <2>2
<1> QED
  BY <1>1, <1>2, <1>3, <1>5, <1>6, <1>7, SearchCallStep DEF m

\* An answer of the server.
LEMMA SearchAnswer ==
  ASSUME SearchInv, NEW c \in Slot, net[c].st = "sent", NEW ok \in BOOLEAN, NEW r, Serve(c, ok, r),
         page' = page, mounted' = mounted, f' = f, q' = q, used' = used, db' \in SearchDbs, db.ver <= db'.ver,
         page = "dashboard" => \A x \in Row : db.rows[x] = "off" => db'.rows[x] = "off",
         net[c].kind = "rows" => r \in Entries /\ Fits(net[c].arg.key, r) /\ q.rows[net[c].arg.key].ver <= r.ver /\ r.ver <= db'.ver,
         net[c].kind # "rows" => r = Nothing,
         net[c].kind = "bulk" /\ ok => db'.rows[net[c].arg.row] = "off"
  PROVE  SearchInv'
<1> DEFINE m == net[c]
           k == [m EXCEPT !.st = "answered", !.ok = ok, !.res = r]
<1>1. net \in [Slot -> SearchCalls] /\ used' \in Nat
  BY DEF SearchInv, SearchOK
<1>2. net' = [net EXCEPT ![c] = k]
  BY <1>1 DEF Serve
<1>3. m \in SearchCalls /\ m.kind # "none"
  BY <1>1, SearchCallIs
<1> HIDE DEF m
<1>4. PICK K, A, R : /\ m \in CallsOf(K, A, R) /\ CallsOf(K, A, R) \subseteq SearchCalls
                     /\ (m.kind = "rows" => R = Entries) /\ (m.kind # "rows" => R = {Nothing})
  BY <1>3, SearchCallOf
<1>5. r \in R
  <2>1. (m.kind = "rows" => r \in Entries) /\ (m.kind # "rows" => r = Nothing)
    BY DEF m
  <2> QED
    BY <1>4, <2>1
<1>6. k \in CallsOf(K, A, R)
  BY Zenon, <1>4, <1>5, CallMoves
<1>7. m \in [st : {"sent", "answered", "broken"}, kind : K, arg : A, try : 1..2, ok : BOOLEAN,
             res : R \cup {Nothing, "absent"}, live : BOOLEAN]
  BY <1>4 DEF CallsOf
<1>8. k.kind = m.kind /\ k.arg = m.arg /\ k.live = m.live /\ (k.ok <=> ok) /\ k.res = r
  BY <1>7
<1>9. k \in SearchCalls
  BY <1>4, <1>6
<1> HIDE DEF k
<1> QED
  BY <1>1, <1>2, <1>8, <1>9, SearchCallStep DEF m

\* What a key asks for fits the key.
LEMMA FoundFits ==
  ASSUME NEW k \in ShownKeys, NEW d \in SearchDbs, NEW e,
         e = [NoEntry EXCEPT !.have = TRUE, !.ver = d.ver, !.total = Cardinality(Found(k, d.rows)),
                !.items = [r \in PageOf(k, d.rows) |-> d.rows[r]]]
  PROVE  e \in Entries /\ Fits(k, e) /\ e.ver = d.ver
<1> DEFINE all == Found(k, d.rows)
           t   == Cardinality(all)
           P   == PageOf(k, d.rows)
           i   == [r \in P |-> d.rows[r]]
           e1  == [NoEntry EXCEPT !.have = TRUE]
           e2  == [e1 EXCEPT !.ver = d.ver]
           e3  == [e2 EXCEPT !.total = t]
<1>1. d.ver \in Nat /\ d.rows \in [Row -> Value]
  BY DEF SearchDbs
<1>2. all \subseteq Row /\ \A r \in all : (k.flt = "all" \/ d.rows[r] = k.flt) /\ (k.search = "" \/ r = Self)
  BY DEF Found, Rows
<1>3. P \subseteq all
  BY DEF PageOf
<1> HIDE DEF all, P
<1>4. t \in Totals
  BY <1>2 DEF Totals
<1>5. i \in [P -> Value] /\ \A r \in P : i[r] = d.rows[r]
  BY <1>1, <1>2, <1>3
<1> HIDE DEF i, t
<1>6. i \in Items
  BY <1>2, <1>3, <1>5 DEF Items
<1>7. e1 \in [have : BOOLEAN, ver : {0}, items : {<<>>}, total : {0}, inv : BOOLEAN]
  BY DEF NoEntry
<1> HIDE DEF e1
<1>8. e2 \in [have : BOOLEAN, ver : {d.ver}, items : {<<>>}, total : {0}, inv : BOOLEAN]
  BY <1>7
<1> HIDE DEF e2
<1>9. e3 \in [have : BOOLEAN, ver : {d.ver}, items : {<<>>}, total : {t}, inv : BOOLEAN]
  BY <1>8
<1> HIDE DEF e3
<1>10. e = [e3 EXCEPT !.items = i]
  BY DEF e1, e2, e3, i, t, P, all
<1>11. e \in [have : BOOLEAN, ver : {d.ver}, items : {i}, total : {t}, inv : BOOLEAN]
  BY <1>9, <1>10
<1>12. e \in Entries
  BY <1>1, <1>4, <1>6, <1>11 DEF Entries
<1>13. e.items = i /\ e.ver = d.ver
  BY <1>11
<1>14. DOMAIN i = P
  BY <1>5
<1>15. Fits(k, e)
  BY <1>2, <1>3, <1>5, <1>13, <1>14 DEF Fits
<1> QED
  BY <1>12, <1>13, <1>15

\* The server's part.
LEMMA SearchServedKeeps == \A c \in Slot : SearchInv /\ SearchServed(c) => SearchInv'
<1> SUFFICES ASSUME NEW c \in Slot, SearchInv, SearchServed(c) PROVE SearchInv'
  OBVIOUS
<1>1. db \in SearchDbs /\ q \in SearchQs /\ net \in [Slot -> SearchCalls] /\ Shown(q, db) /\ Batches(page, db, net)
  BY DEF SearchInv, SearchOK
<1>2. db.ver \in Nat /\ db.rows \in [Row -> Value] /\ db.ver <= db.ver
  BY <1>1 DEF SearchDbs
<1>3. TRUE \in BOOLEAN /\ FALSE \in BOOLEAN
  OBVIOUS
<1>4. CASE ServeRows(c)
  <2> DEFINE k == net[c].arg.key
             e == [NoEntry EXCEPT !.have = TRUE, !.ver = db.ver, !.total = Cardinality(Found(k, db.rows)),
                     !.items = [r \in PageOf(k, db.rows) |-> db.rows[r]]]
             ok == TRUE
  <2>1. net[c].st = "sent" /\ net[c].kind = "rows" /\ Serve(c, ok, e) /\ UNCHANGED <<page, mounted, f, q, db, used>>
    BY <1>4 DEF ServeRows, Asked
  <2>2. k \in ShownKeys
    BY <1>1, <2>1, SearchArgs
  <2>3. e \in Entries /\ Fits(k, e) /\ e.ver = db.ver
    BY <1>1, <2>2, FoundFits
  <2>4. q.rows[k].ver <= db.ver
    BY <1>1, <2>2 DEF Shown
  <2>5. ok \in BOOLEAN
    OBVIOUS
  <2> HIDE DEF e, ok
  <2> QED
    BY <1>1, <1>2, <2>1, <2>2, <2>3, <2>4, <2>5, SearchAnswer
<1>5. CASE ServeBulk(c)
  <2>1. net[c].st = "sent" /\ net[c].kind = "bulk" /\ UNCHANGED <<page, mounted, f, q, used>>
    BY <1>5 DEF ServeBulk, Asked
  <2>2. net[c].arg.row \in Row
    BY <1>1, <2>1, SearchArgs
  <2> DEFINE x == net[c].arg.row
             rows == [db.rows EXCEPT ![x] = "off"]
             d == [ver |-> db.ver + 1, rows |-> rows]
             yes == TRUE
             no == FALSE
  <2>3. \/ Serve(c, no, Nothing) /\ db' = db
        \/ Serve(c, yes, Nothing) /\ db' = d
    BY <1>5 DEF ServeBulk
  <2>4. rows \in [Row -> Value] /\ rows[x] = "off" /\ \A r \in Row : db.rows[r] = "off" => rows[r] = "off"
    BY <1>2, <2>2 DEF Value
  <2> HIDE DEF rows
  <2>5. d \in SearchDbs /\ db.ver <= d.ver /\ d.rows = rows
    BY <1>2, <2>4 DEF SearchDbs
  <2>6. yes \in BOOLEAN /\ no \in BOOLEAN /\ ~no
    OBVIOUS
  <2> HIDE DEF d, x, yes, no
  <2>7. CASE Serve(c, no, Nothing) /\ db' = db
    BY <1>1, <1>2, <2>1, <2>6, <2>7, SearchAnswer
  <2>8. CASE Serve(c, yes, Nothing) /\ db' = d
    BY <1>1, <2>1, <2>2, <2>4, <2>5, <2>6, <2>8, SearchAnswer DEF x
  <2> QED
    BY <2>3, <2>7, <2>8
<1>6. CASE ServeImport(c)
  <2> DEFINE v == db.ver + 1
             d == [db EXCEPT !.ver = v]
             yes == TRUE
  <2>1. /\ net[c].st = "sent" /\ net[c].kind = "import" /\ Serve(c, yes, Nothing) /\ db' = d
        /\ UNCHANGED <<page, mounted, f, q, used>>
    BY <1>6 DEF ServeImport, Asked
  <2>2. v \in Nat /\ db.ver <= v
    BY <1>2
  <2> HIDE DEF v
  <2>3. d \in SearchDbs /\ d.ver = v /\ d.rows = db.rows
    BY <1>1, <2>2 DEF SearchDbs
  <2>4. yes \in BOOLEAN
    OBVIOUS
  <2> HIDE DEF d, yes
  <2> QED
    BY <1>1, <2>1, <2>2, <2>3, <2>4, SearchAnswer
<1> QED
  BY <1>4, <1>5, <1>6 DEF SearchServed

\* Somebody else's changes.
LEMMA ElsewhereKeeps == \A r \in Row, v \in Value : SearchInv /\ Elsewhere(r, v) => SearchInv'
<1> SUFFICES ASSUME NEW r \in Row, NEW v \in Value, SearchInv, Elsewhere(r, v) PROVE SearchInv'
  OBVIOUS
<1>1. db.ver \in Nat /\ db.rows \in [Row -> Value] /\ used \in Nat
  BY DEF SearchInv, SearchOK, SearchDbs
<1> DEFINE rows == [db.rows EXCEPT ![r] = v]
<1>2. UNCHANGED <<page, mounted, f, q, net>> /\ used' = used + 1 /\ db' = [ver |-> db.ver + 1, rows |-> rows]
  BY DEF Elsewhere, Event
<1>3. page = "dashboard" => v = "off"
  BY DEF Elsewhere
<1>4. rows \in [Row -> Value] /\ (page = "dashboard" => \A x \in Row : db.rows[x] = "off" => rows[x] = "off")
  BY <1>1, <1>3
<1> HIDE DEF rows
<1>5. db' \in SearchDbs /\ db.ver <= db'.ver /\ db'.rows = rows
  BY <1>1, <1>2, <1>4 DEF SearchDbs
<1>6. used' \in Nat
  BY <1>1, <1>2
<1> QED
  BY <1>2, <1>4, <1>5, <1>6, SearchDbStep

\* What SearchInv says.
LEMMA SearchParts ==
  ASSUME SearchInv
  PROVE  /\ mounted \in BOOLEAN /\ db \in SearchDbs /\ q \in SearchQs /\ f \in SearchFs /\ net \in [Slot -> SearchCalls] /\ used \in Nat
         /\ Shown(q, db) /\ Fetches(q, db, net) /\ Batches(page, db, net) /\ AreClosed(page, f, db) /\ Blocked(page, mounted, f, net)
BY DEF SearchInv, SearchOK

\* A step of the page.
LEMMA SearchStep ==
  ASSUME SearchInv, page' = page, mounted' \in BOOLEAN, db' = db, used' \in Nat, q' \in SearchQs, f' \in SearchFs,
         net' \in [Slot -> SearchCalls], Shown(q', db), Fetches(q', db, net'), Batches(page, db, net'), AreClosed(page, f', db),
         Blocked(page, mounted', f', net')
  PROVE  SearchInv'
<1>1. db \in SearchDbs
  BY SearchParts
<1>2. SearchOK(page, mounted', f', q', db, net')
  BY <1>1 DEF SearchOK
<1> QED
  BY <1>2 DEF SearchInv

\* What the calls of other kinds keep.
LEMMA SearchSame ==
  ASSUME NEW n, NEW m
  PROVE  /\ \A p, d : Same(n, m, {"bulk"}) /\ Batches(p, d, n) => Batches(p, d, m)
         /\ Same(n, m, {"import"}) => (Held(n, "import") => Held(m, "import"))
         /\ \A K : Same(n, m, K) => \A k \in K : Same(n, m, {k})
         /\ Same(n, m, {"rows"}) => \A k : Flown(n, k) <=> Flown(m, k)
<1>1. ASSUME NEW p, NEW d, Same(n, m, {"bulk"}), Batches(p, d, n) PROVE Batches(p, d, m)
  <2>1. \A c \in Slot : n[c].kind = "bulk" \/ m[c].kind = "bulk" => m[c] = n[c]
    BY <1>1 DEF Same
  <2> SUFFICES ASSUME NEW c \in Slot, m[c].kind = "bulk"
               PROVE  /\ p = "dashboard"
                      /\ m[c].st = "answered" /\ m[c].ok => d.rows[m[c].arg.row] = "off"
                      /\ ~m[c].arg.lost => \A r \in m[c].arg.sent :
                           d.rows[r] = "off" \/ \E b \in Slot : m[b].kind = "bulk" /\ m[b].arg.id = m[c].arg.id /\ m[b].arg.row = r
    BY DEF Batches
  <2>2. m[c] = n[c] /\ n[c].kind = "bulk"
    BY <2>1
  <2>3. p = "dashboard" /\ (n[c].st = "answered" /\ n[c].ok => d.rows[n[c].arg.row] = "off")
    BY <1>1, <2>2 DEF Batches
  <2>4. ASSUME ~n[c].arg.lost, NEW r \in n[c].arg.sent, d.rows[r] # "off"
        PROVE  \E b \in Slot : m[b].kind = "bulk" /\ m[b].arg.id = n[c].arg.id /\ m[b].arg.row = r
    <3>1. PICK b \in Slot : n[b].kind = "bulk" /\ n[b].arg.id = n[c].arg.id /\ n[b].arg.row = r
      BY <1>1, <2>2, <2>4 DEF Batches
    <3> QED
      BY <2>1, <3>1
  <2> QED
    BY <2>2, <2>3, <2>4
<1>2. ASSUME Same(n, m, {"import"}), Held(n, "import") PROVE Held(m, "import")
  <2>1. \A c \in Slot : n[c].kind = "import" => m[c] = n[c]
    BY <1>2 DEF Same
  <2> QED
    BY <1>2, <2>1 DEF Held
<1>3. ASSUME NEW K, Same(n, m, K), NEW k \in K PROVE Same(n, m, {k})
  BY <1>3 DEF Same
<1>4. ASSUME Same(n, m, {"rows"}), NEW k PROVE Flown(n, k) <=> Flown(m, k)
  <2>1. \A c \in Slot : n[c].kind = "rows" \/ m[c].kind = "rows" => m[c] = n[c]
    BY <1>4 DEF Same
  <2> QED
    BY <2>1 DEF Flown
<1> QED
  BY <1>1, <1>2, <1>3, <1>4

\* The fetches of the keys.
Renewed(e, d, n, m) ==
  /\ m \in [Slot -> SearchCalls] /\ Same(n, m, {"bulk", "import"}) /\ Fetches(e, d, m)
  /\ \A k \in ShownKeys : Flown(n, k) => Flown(m, k)

\* A fetch of rows is a call of a search page.
LEMMA RowsCall ==
  ASSUME NEW k \in ShownKeys
  PROVE  /\ Sent("rows", [key |-> k, val |-> "first"]) \in SearchCalls
         /\ \A n : AskRows(n, k) = Adds(n, "rows", [key |-> k, val |-> "first"])
<1> DEFINE a == [key |-> k, val |-> "first"]
<1>1. a \in [key : ShownKeys, val : {"first", "again"}]
  OBVIOUS
<1>2. \A n : AskRows(n, k) = Adds(n, "rows", a)
  BY DEF AskRows, Adds
<1> HIDE DEF a
<1>3. Sent("rows", a) \in RowsCalls
  BY <1>1, HeldCallIs DEF RowsCalls
<1> QED
  BY <1>2, <1>3 DEF SearchCalls, a

\* Asking for the rows of a key that is not in flight adds one fetch, of that key.
LEMMA RowsAsked ==
  ASSUME NEW n \in [Slot -> SearchCalls], NEW k \in ShownKeys, FreeIn(n) # {}, ~Flown(n, k)
  PROVE  /\ AskRows(n, k) \in [Slot -> SearchCalls] /\ Same(n, AskRows(n, k), {"bulk", "import"})
         /\ \A e, d : Fetches(e, d, n) => Fetches(e, d, AskRows(n, k))
         /\ \A j : Flown(AskRows(n, k), j) <=> Flown(n, j) \/ j = k
         /\ \A x, y \in FreeIn(n) : x # y => FreeIn(AskRows(n, k)) # {}
<1> DEFINE a == [key |-> k, val |-> "first"]
           m == AskRows(n, k)
<1>1. Sent("rows", a) \in SearchCalls /\ m = Adds(n, "rows", a) /\ a.key = k
  BY RowsCall
<1> HIDE DEF a
<1>2. Calling(SearchCalls)
  BY SearchCallIs
<1>3. /\ m \in [Slot -> SearchCalls] /\ Same(n, m, {"bulk", "import"})
      /\ \E s \in Slot : n[s].st = "idle" /\ m[s] = Sent("rows", a) /\ \A c \in Slot : c # s => m[c] = n[c]
  <2> DEFINE o == Adds(n, "rows", a)
             K == {"bulk", "import"}
  <2>1. "rows" \notin K /\ "none" \notin K
    OBVIOUS
  <2> HIDE DEF K
  <2>2. /\ o \in [Slot -> SearchCalls] /\ Same(n, o, K)
        /\ \E s \in Slot : n[s].st = "idle" /\ o[s] = Sent("rows", a) /\ \A c \in Slot : c # s => o[c] = n[c]
    BY <1>1, <1>2, <2>1, RestStays
  <2> QED
    BY <1>1, <2>2 DEF K
<1> HIDE DEF m
<1>4. PICK s \in Slot : n[s].st = "idle" /\ m[s] = Sent("rows", a) /\ \A c \in Slot : c # s => m[c] = n[c]
  BY <1>3
<1>5. m[s].st = "sent" /\ m[s].kind = "rows" /\ m[s].arg.key = k /\ ~m[s].ok
  BY <1>1, <1>4, HeldCallIs
<1>6. n[s].kind = "none"
  BY <1>4, <1>2 DEF Calling
<1>7. \A c \in Slot : n[c].kind = "rows" => n[c].arg.key # k
  BY DEF Flown
<1>8. ASSUME NEW e, NEW d, Fetches(e, d, n) PROVE Fetches(e, d, m)
  <2>1. ASSUME NEW c \in Slot, m[c].kind = "rows", m[c].st = "answered", m[c].ok
        PROVE  Fits(m[c].arg.key, m[c].res) /\ e.rows[m[c].arg.key].ver <= m[c].res.ver /\ m[c].res.ver <= d.ver
    BY <1>4, <1>5, <1>8, <2>1 DEF Fetches
  <2>2. ASSUME NEW c \in Slot, NEW b \in Slot, m[c].kind = "rows", m[b].kind = "rows", m[b].arg.key = m[c].arg.key PROVE b = c
    <3>1. CASE c = s \/ b = s
      BY <1>4, <1>5, <1>7, <2>2, <3>1
    <3>2. CASE c # s /\ b # s
      BY <1>4, <1>8, <2>2, <3>2 DEF Fetches
    <3> QED
      BY <3>1, <3>2
  <2> QED
    BY <2>1, <2>2 DEF Fetches
<1>9. \A j : Flown(m, j) <=> Flown(n, j) \/ j = k
  BY <1>4, <1>5, <1>6 DEF Flown
<1>10. \A x, y \in FreeIn(n) : x # y => FreeIn(m) # {}
  BY <1>4 DEF FreeIn
<1> QED
  BY <1>3, <1>8, <1>9, <1>10 DEF m

\* Cancelling the fetch of a key removes that fetch and no other.
LEMMA RowsUnasked ==
  ASSUME NEW n \in [Slot -> SearchCalls], NEW k \in ShownKeys
  PROVE  /\ Unasked(n, k) \in [Slot -> SearchCalls] /\ Same(n, Unasked(n, k), {"bulk", "import"})
         /\ \A e, d : Fetches(e, d, n) => Fetches(e, d, Unasked(n, k))
         /\ \A j : Flown(Unasked(n, k), j) <=> Flown(n, j) /\ j # k
         /\ FreeIn(n) \subseteq FreeIn(Unasked(n, k)) /\ (Flown(n, k) => FreeIn(Unasked(n, k)) # {})
<1> DEFINE m == Unasked(n, k)
<1>1. \A c \in Slot : n[c] \in SearchCalls /\ (n[c].st # "idle" <=> n[c].kind # "none")
  BY SearchCallIs
<1>2. NoCall \in SearchCalls /\ NoCall.kind = "none" /\ NoCall.st = "idle"
  BY NoCallIs, SearchCallIs DEF Calling
<1>3. m \in [Slot -> SearchCalls]
  BY <1>1, <1>2 DEF Unasked
<1>4. \A c \in Slot : m[c] = IF n[c].kind = "rows" /\ n[c].arg.key = k THEN NoCall ELSE n[c]
  BY <1>1 DEF Unasked, IsFetch
<1> HIDE DEF m
<1>5. Same(n, m, {"bulk", "import"})
  BY <1>2, <1>4 DEF Same
<1>6. \A c \in Slot : m[c].kind = "rows" => m[c] = n[c]
  BY <1>2, <1>4
<1>7. ASSUME NEW e, NEW d, Fetches(e, d, n) PROVE Fetches(e, d, m)
  BY <1>6, <1>7 DEF Fetches
<1>8. \A j : Flown(m, j) <=> Flown(n, j) /\ j # k
  BY <1>2, <1>4 DEF Flown
<1>9. FreeIn(n) \subseteq FreeIn(m) /\ (Flown(n, k) => FreeIn(m) # {})
  BY <1>2, <1>4 DEF FreeIn, Flown
<1> QED
  BY <1>3, <1>5, <1>7, <1>8, <1>9 DEF m

\* A fetch takes the place of another.
LEMMA RowsRefetched ==
  ASSUME NEW e, NEW d, NEW n \in [Slot -> SearchCalls], NEW k \in ShownKeys, Fetches(e, d, n), FreeIn(n) # {} \/ Flown(n, k)
  PROVE  Renewed(e, d, n, AskRows(Unasked(n, k), k)) /\ Flown(AskRows(Unasked(n, k), k), k)
<1> DEFINE m == Unasked(n, k)
           o == AskRows(m, k)
<1>1. /\ m \in [Slot -> SearchCalls] /\ Same(n, m, {"bulk", "import"}) /\ Fetches(e, d, m) /\ ~Flown(m, k) /\ FreeIn(m) # {}
      /\ \A j : Flown(m, j) <=> Flown(n, j) /\ j # k
  BY RowsUnasked
<1> HIDE DEF m
<1>2. /\ o \in [Slot -> SearchCalls] /\ Same(m, o, {"bulk", "import"}) /\ Fetches(e, d, o)
      /\ \A j : Flown(o, j) <=> Flown(m, j) \/ j = k
  BY <1>1, RowsAsked
<1> HIDE DEF o
<1>3. Same(n, o, {"bulk", "import"})
  BY <1>1, <1>2, SameChain
<1> QED
  BY <1>1, <1>2, <1>3 DEF Renewed, o, m

\* A key comes on the screen.
LEMMA ShowsRenews ==
  ASSUME SearchInv, NEW k \in ShownKeys, Shows(net, k)
  PROVE  Renewed(q, db, net, net')
<1>1. net \in [Slot -> SearchCalls] /\ Fetches(q, db, net)
  BY SearchParts
<1>2. Fetching(k) <=> Flown(net, k)
  <2>1. \A c \in Slot : net[c].kind = "rows" => net[c].st # "idle"
    BY <1>1, SearchCallIs
  <2> QED
    BY <2>1 DEF Fetching, IsFetch, Flown
<1>3. CASE net' = net
  BY <1>1, <1>3 DEF Renewed, Same
<1>4. CASE ~Fetching(k) /\ FreeIn(net) # {} /\ net' = AskRows(net, k)
  BY <1>1, <1>2, <1>4, RowsAsked DEF Renewed
<1> QED
  BY <1>3, <1>4 DEF Shows

\* The filter and the page number.
LEMMA KeyIs == \A g \in SearchFs : Key(g) \in ShownKeys /\ Key(g).search = g.search /\ Key(g).flt = g.flt /\ Key(g).no = g.no
BY DEF SearchFs, Key, ShownKeys

\* invalidateQueries.
LEMMA Invalidated ==
  ASSUME SearchInv, NEW c \in Slot, net[c].kind # "rows"
  PROVE  /\ Renewed(q, db, Without(net, c), InvalidateRows(Without(net, c)))
         /\ mounted => Flown(InvalidateRows(Without(net, c)), Key(f))
<1> DEFINE n == Without(net, c)
           k == Key(f)
<1>1. net \in [Slot -> SearchCalls] /\ Fetches(q, db, net) /\ f \in SearchFs
  BY SearchParts
<1>2. n \in [Slot -> SearchCalls] /\ c \in FreeIn(n) /\ Same(net, n, {"rows"})
  BY <1>1, SearchCallIs, RestStays
<1>3. k \in ShownKeys
  BY <1>1, KeyIs
<1>4. Fetching(k) => Flown(net, k)
  BY DEF Fetching, IsFetch, Flown
<1>5. InvalidateRows(n) = IF ~mounted \/ (~entry.have /\ Fetching(k)) THEN n ELSE AskRows(Unasked(n, k), k)
  BY DEF InvalidateRows
<1> HIDE DEF n, k
<1>6. Fetches(q, db, n)
  <2>1. \A b \in Slot : n[b].kind = "rows" => n[b] = net[b]
    BY <1>2 DEF Same
  <2> QED
    BY <1>1, <2>1 DEF Fetches
<1>7. Flown(net, k) <=> Flown(n, k)
  BY <1>2, SearchSame
<1>8. CASE ~mounted \/ (~entry.have /\ Fetching(k))
  BY <1>2, <1>4, <1>5, <1>6, <1>7, <1>8 DEF Renewed, Same, n, k
<1>9. CASE ~(~mounted \/ (~entry.have /\ Fetching(k)))
  <2>1. FreeIn(n) # {}
    BY <1>2
  <2>2. InvalidateRows(n) = AskRows(Unasked(n, k), k)
    BY <1>5, <1>9
  <2> QED
    BY <1>2, <1>3, <1>6, <2>1, <2>2, RowsRefetched DEF n, k
<1> QED
  BY <1>8, <1>9

\* The marks.
LEMMA MarkedRows ==
  ASSUME SearchInv
  PROVE  /\ MarkRows \in SearchQs /\ Shown(MarkRows, db)
         /\ \A n : Fetches(q, db, n) /\ n \in [Slot -> SearchCalls] => Fetches(MarkRows, db, n)
<1> DEFINE R == [k \in ShownKeys |-> [q.rows[k] EXCEPT !.inv = @ \/ q.rows[k].have]]
<1>1. q \in SearchQs /\ Shown(q, db)
  BY SearchParts
<1>2. MarkRows = [q EXCEPT !.rows = R]
  BY DEF MarkRows
<1>3. ASSUME NEW k \in ShownKeys
      PROVE  R[k] \in Entries /\ R[k].ver = q.rows[k].ver /\ R[k].items = q.rows[k].items
  <2> DEFINE e == q.rows[k]
             b == e.inv \/ e.have
  <2>1. e \in Entries
    BY <1>1, <1>3 DEF SearchQs
  <2>2. R[k] = [e EXCEPT !.inv = b]
    BY <1>3
  <2>3. b \in BOOLEAN
    BY <2>1 DEF Entries
  <2> HIDE DEF e, b
  <2>4. R[k] \in Entries /\ R[k].ver = e.ver /\ R[k].items = e.items
    BY <2>1, <2>2, <2>3 DEF Entries
  <2> QED
    BY <2>4 DEF e
<1>4. R \in [ShownKeys -> Entries]
  BY <1>3
<1> HIDE DEF R
<1>5. MarkRows \in SearchQs /\ MarkRows.rows = R
  BY <1>1, <1>2, <1>4 DEF SearchQs
<1>6. Shown(MarkRows, db)
  BY <1>1, <1>3, <1>5 DEF Shown, Fits
<1>7. ASSUME NEW n, Fetches(q, db, n), n \in [Slot -> SearchCalls] PROVE Fetches(MarkRows, db, n)
  <2>1. \A c \in Slot : n[c].kind = "rows" => n[c].arg.key \in ShownKeys
    BY <1>7, SearchArgs
  <2> QED
    BY <1>3, <1>5, <1>7, <2>1 DEF Fetches
<1> QED
  BY <1>5, <1>6, <1>7

\* A step that asks for rows, for another filter or another page of them.
Filtered(g, h) == h \in SearchFs /\ h.busy = g.busy /\ h.wait = g.wait /\ h.closed = g.closed /\ h.sel = g.sel

\* Such a step keeps the invariant when what it does to the calls is Renewed.
LEMMA RenewStep ==
  ASSUME SearchInv, page' = page, mounted' \in BOOLEAN, mounted => mounted', db' = db, used' \in Nat, q' = q,
         Renewed(q, db, net, net'), f' \in SearchFs, f'.busy = f.busy, f'.wait = f.wait, f'.closed = f.closed, IsFiniteSet(f'.sel)
  PROVE  SearchInv'
<1>1. /\ q \in SearchQs /\ f \in SearchFs /\ mounted \in BOOLEAN
      /\ Shown(q, db) /\ Batches(page, db, net) /\ AreClosed(page, f, db) /\ Blocked(page, mounted, f, net)
  BY SearchParts
<1>2. net' \in [Slot -> SearchCalls] /\ Fetches(q, db, net') /\ Same(net, net', {"bulk"}) /\ Same(net, net', {"import"})
  BY SearchSame DEF Renewed
<1>3. Batches(page, db, net')
  BY <1>1, <1>2, SearchSame
<1>4. AreClosed(page, f', db)
  BY <1>1 DEF AreClosed
<1>5. Blocked(page, mounted', f', net')
  <2>1. Held(net, "import") => Held(net', "import")
    BY <1>2, SearchSame
  <2>2. Flown(net, f.wait) => Flown(net', f.wait)
    BY <1>1 DEF Renewed, SearchFs
  <2>3. \A c \in Slot : net'[c].kind = "import" => page = "iocs" /\ (net'[c].live => mounted' = TRUE)
    <3>1. \A c \in Slot : net'[c].kind = "import" => net'[c] = net[c]
      BY <1>2 DEF Same
    <3> QED
      BY <1>1, <3>1 DEF Blocked
  <2> QED
    BY <1>1, <2>1, <2>2, <2>3 DEF Blocked
<1> QED
  BY <1>1, <1>2, <1>3, <1>4, <1>5, SearchStep

\* Nothing asked for.
LEMMA NotRenewed == SearchInv => Renewed(q, db, net, net)
BY SearchParts DEF Renewed, Same

\* The filters.
LEMMA FilteredIs ==
  ASSUME f \in SearchFs
  PROVE  /\ Filtered(f, f)
         /\ \A v \in {"all", "on"} : Filtered(f, Flt(v))
         /\ \A t \in {"", "self"} : Filtered(f, [f EXCEPT !.text = t]) /\ Filtered(f, [f EXCEPT !.text = t, !.search = t])
         /\ Filtered(f, Debounced)
         /\ \A h : Filtered(f, h) => Filtered(f, First(h)) /\ Filtered(f, [h EXCEPT !.moves = @ + 1])
         /\ f.no < 2 => Filtered(f, [f EXCEPT !.no = @ + 1])
         /\ f.no > 1 => Filtered(f, [f EXCEPT !.no = @ - 1])
<1>1. Filtered(f, f)
  BY DEF Filtered
<1>2. \A v \in {"all", "on"} : Filtered(f, Flt(v))
  BY DEF Filtered, Flt, SearchFs
<1>3. ASSUME NEW t \in {"", "self"} PROVE Filtered(f, [f EXCEPT !.text = t]) /\ Filtered(f, [f EXCEPT !.text = t, !.search = t])
  BY DEF Filtered, SearchFs
<1>4. Filtered(f, Debounced)
  <2> DEFINE t == f.text
  <2>1. t \in {"", "self"}
    BY DEF SearchFs
  <2> HIDE DEF t
  <2>2. Filtered(f, [f EXCEPT !.search = t])
    BY <2>1 DEF Filtered, SearchFs
  <2> QED
    BY <2>2 DEF Debounced, t
<1>5. ASSUME NEW h, Filtered(f, h) PROVE Filtered(f, First(h)) /\ Filtered(f, [h EXCEPT !.moves = @ + 1])
  <2> DEFINE v == h.moves + 1
  <2>0. h \in SearchFs /\ h.busy = f.busy /\ h.wait = f.wait /\ h.closed = f.closed /\ h.sel = f.sel
    BY <1>5 DEF Filtered
  <2>1. Filtered(f, First(h))
    <3> DEFINE no == 1
    <3>1. no \in 1..2
      OBVIOUS
    <3> HIDE DEF no
    <3>2. Filtered(f, [h EXCEPT !.no = no])
      BY <2>0, <3>1 DEF Filtered, SearchFs
    <3> QED
      BY <3>2 DEF First, no
  <2>2. v \in Nat
    <3>1. h.moves \in Nat
      BY <2>0 DEF SearchFs
    <3> QED
      BY <3>1
  <2> HIDE DEF v
  <2>3. Filtered(f, [h EXCEPT !.moves = v])
    BY <2>0, <2>2 DEF Filtered, SearchFs
  <2> QED
    BY <2>1, <2>3 DEF v
<1>6. ASSUME f.no < 2 PROVE Filtered(f, [f EXCEPT !.no = @ + 1])
  <2> DEFINE v == f.no + 1
  <2>1. v \in 1..2
    <3>1. f.no \in 1..2
      BY DEF SearchFs
    <3> QED
      BY <1>6, <3>1
  <2> HIDE DEF v
  <2>2. Filtered(f, [f EXCEPT !.no = v])
    BY <2>1 DEF Filtered, SearchFs
  <2> QED
    BY <2>2 DEF v
<1>7. ASSUME f.no > 1 PROVE Filtered(f, [f EXCEPT !.no = @ - 1])
  <2> DEFINE v == f.no - 1
  <2>1. v \in 1..2
    <3>1. f.no \in 1..2
      BY DEF SearchFs
    <3> QED
      BY <1>7, <3>1
  <2> HIDE DEF v
  <2>2. Filtered(f, [f EXCEPT !.no = v])
    BY <2>1 DEF Filtered, SearchFs
  <2> QED
    BY <2>2 DEF v
<1> QED
  BY <1>1, <1>2, <1>3, <1>4, <1>5, <1>6, <1>7

\* A step to another filter.
LEMMA FilterStep ==
  ASSUME SearchInv, page' = page, mounted' = mounted, db' = db, used' = used, q' = q, Filtered(f, f'), Renewed(q, db, net, net')
  PROVE  SearchInv'
<1>1. mounted \in BOOLEAN /\ used \in Nat /\ IsFiniteSet(f.sel)
  BY SearchParts DEF AreClosed
<1> QED
  BY <1>1, RenewStep DEF Filtered

\* A filter or page number chosen by the analyst (MovesTo) keeps the invariant.
LEMMA MovesKeep == \A g : SearchInv /\ Filtered(f, g) /\ MovesTo(g) => SearchInv'
<1> SUFFICES ASSUME NEW g, SearchInv, Filtered(f, g), MovesTo(g) PROVE SearchInv'
  OBVIOUS
<1>1. f \in SearchFs
  BY SearchParts
<1>2. Filtered(f, f')
  BY <1>1, FilteredIs DEF MovesTo
<1>3. Key(g) \in ShownKeys
  BY KeyIs DEF Filtered
<1>4. Renewed(q, db, net, net')
  <2>1. net' = net \/ Shows(net, Key(g))
    BY DEF MovesTo
  <2> QED
    BY <1>3, <2>1, NotRenewed, ShowsRenews
<1> QED
  BY <1>2, <1>4, FilterStep DEF MovesTo

\* A filter that goes back to the first page in an effect (Resets) keeps it: both keys are asked for.
LEMMA ResetsKeep == \A g : SearchInv /\ Filtered(f, g) /\ Resets(g) => SearchInv'
<1> SUFFICES ASSUME NEW g, SearchInv, Filtered(f, g), Resets(g) PROVE SearchInv'
  OBVIOUS
<1>1. f \in SearchFs /\ net \in [Slot -> SearchCalls] /\ Fetches(q, db, net)
  BY SearchParts
<1>2. Filtered(f, First(g)) /\ f' = First(g) /\ g \in SearchFs
  BY <1>1, FilteredIs DEF Resets, Filtered
<1> DEFINE k == Key(g)
           j == Key(First(g))
<1>3. k \in ShownKeys /\ j \in ShownKeys /\ k.no = g.no /\ j.no = First(g).no
  BY <1>2, KeyIs DEF Filtered
<1>4. First(g).no = 1
  BY <1>2 DEF First, SearchFs
<1>5. Renewed(q, db, net, net')
  <2>1. CASE g.no = 1
    BY <1>3, <2>1, ShowsRenews DEF Resets
  <2>2. CASE g.no # 1
    <3> DEFINE n == Unasked(net, k)
               m == Unasked(n, j)
               o == AskRows(m, k)
    <3>1. Cardinality(FreeIn(net)) >= 2 /\ net' = AskRows(o, j)
      BY <2>2 DEF Resets, Room
    <3>2. k # j
      BY <1>3, <1>4, <2>2
    <3> HIDE DEF k, j
    <3>3. /\ n \in [Slot -> SearchCalls] /\ Same(net, n, {"bulk", "import"}) /\ Fetches(q, db, n) /\ FreeIn(net) \subseteq FreeIn(n)
          /\ \A i : Flown(n, i) <=> Flown(net, i) /\ i # k
      BY <1>1, <1>3, RowsUnasked
    <3> HIDE DEF n
    <3>4. /\ m \in [Slot -> SearchCalls] /\ Same(n, m, {"bulk", "import"}) /\ Fetches(q, db, m) /\ FreeIn(n) \subseteq FreeIn(m)
          /\ \A i : Flown(m, i) <=> Flown(n, i) /\ i # j
      BY <1>3, <3>3, RowsUnasked
    <3> HIDE DEF m
    <3>5. PICK x, y \in FreeIn(m) : x # y
      BY <3>1, <3>3, <3>4, RoomIs
    <3>6. /\ o \in [Slot -> SearchCalls] /\ Same(m, o, {"bulk", "import"}) /\ Fetches(q, db, o)
          /\ \A i : Flown(o, i) <=> Flown(m, i) \/ i = k
      BY <1>3, <3>3, <3>4, <3>5, RowsAsked
    <3>7. FreeIn(o) # {}
      BY <1>3, <3>3, <3>4, <3>5, RowsAsked
    <3> HIDE DEF o
    <3>8. ~Flown(o, j)
      BY <3>2, <3>4, <3>6
    <3>9. /\ net' \in [Slot -> SearchCalls] /\ Same(o, net', {"bulk", "import"}) /\ Fetches(q, db, net')
          /\ \A i : Flown(net', i) <=> Flown(o, i) \/ i = j
      BY <1>3, <3>1, <3>6, <3>7, <3>8, RowsAsked
    <3>10. Same(net, net', {"bulk", "import"})
      BY <3>3, <3>4, <3>6, <3>9, SameChain
    <3> QED
      BY <3>3, <3>4, <3>6, <3>9, <3>10 DEF Renewed
  <2> QED
    BY <2>1, <2>2
<1> QED
  BY <1>2, <1>5, FilterStep DEF Resets

\* Filters, page numbers, the timer and REFRESH.
LEMMA FiltersKeep ==
  SearchInv /\ (\/ activeCard \/ clearFilter \/ passSearch \/ nextPage \/ prevPage \/ AuditTick \/ AuditRefresh
                \/ \E v \in {"all", "on"} : statusSelect(v) \/ setActiveType(v) \/ setEventType(v) \/ setSeverity(v)
                \/ \E t \in {"", "self"} : setIncidentSearch(t) \/ setTargetId(t) \/ setHitSearch(t)) => SearchInv'
<1> SUFFICES ASSUME SearchInv,
                    \/ activeCard \/ clearFilter \/ passSearch \/ nextPage \/ prevPage \/ AuditTick \/ AuditRefresh
                    \/ \E v \in {"all", "on"} : statusSelect(v) \/ setActiveType(v) \/ setEventType(v) \/ setSeverity(v)
                    \/ \E t \in {"", "self"} : setIncidentSearch(t) \/ setTargetId(t) \/ setHitSearch(t)
             PROVE  SearchInv'
  OBVIOUS
<1>1. f \in SearchFs /\ net \in [Slot -> SearchCalls] /\ Fetches(q, db, net)
  BY SearchParts
<1>2. Key(f) \in ShownKeys
  BY <1>1, KeyIs
<1>3. /\ \A v \in {"all", "on"} : Filtered(f, Flt(v)) /\ Filtered(f, First(Flt(v))) /\ Filtered(f, [Flt(v) EXCEPT !.moves = @ + 1])
      /\ Filtered(f, f) /\ Filtered(f, Debounced)
  BY <1>1, FilteredIs
<1>4. ASSUME NEW t \in {"", "self"}
      PROVE  /\ Filtered(f, [f EXCEPT !.text = t]) /\ Filtered(f, First([f EXCEPT !.text = t]))
             /\ Filtered(f, First([f EXCEPT !.text = t, !.search = t]))
  BY <1>1, FilteredIs
<1>5. CASE activeCard \/ clearFilter
  BY <1>3, <1>5, MovesKeep DEF activeCard, clearFilter
<1>6. CASE \E v \in {"all", "on"} : statusSelect(v) \/ setActiveType(v) \/ setEventType(v) \/ setSeverity(v)
  <2>1. PICK v \in {"all", "on"} : MovesTo(First(Flt(v))) \/ Resets([Flt(v) EXCEPT !.moves = @ + 1])
    BY <1>6 DEF statusSelect, setActiveType, setEventType, setSeverity
  <2> QED
    BY <1>3, <2>1, MovesKeep, ResetsKeep
<1>7. CASE \E t \in {"", "self"} : setIncidentSearch(t) \/ setTargetId(t) \/ setHitSearch(t)
  <2>1. PICK t \in {"", "self"} : \/ MovesTo([f EXCEPT !.text = t]) \/ MovesTo(First([f EXCEPT !.text = t]))
                                  \/ MovesTo(First([f EXCEPT !.text = t, !.search = t]))
    BY <1>7 DEF setIncidentSearch, setTargetId, setHitSearch
  <2> QED
    BY <1>4, <2>1, MovesKeep
<1>8. CASE passSearch
  <2>1. Key(Debounced) \in ShownKeys
    BY <1>3, KeyIs DEF Filtered
  <2>2. \/ Resets(Debounced)
        \/ f' = Debounced /\ Shows(net, Key(Debounced)) /\ UNCHANGED <<page, mounted, q, db, used, faults>>
    BY <1>8 DEF passSearch
  <2> QED
    BY <1>3, <2>1, <2>2, ResetsKeep, ShowsRenews, FilterStep
<1>9. CASE nextPage
  BY <1>1, <1>9, FilteredIs, MovesKeep DEF nextPage
<1>10. CASE prevPage
  BY <1>1, <1>10, FilteredIs, MovesKeep DEF prevPage
<1>11. CASE AuditTick
  <2>1. Cardinality(FreeIn(net)) >= 1 /\ ~Fetching(Key(f)) /\ net' = AskRows(net, Key(f)) /\ UNCHANGED <<page, mounted, f, q, db, used>>
    BY <1>11 DEF AuditTick, Room
  <2>2. FreeIn(net) # {}
    BY <2>1, RoomIs
  <2>3. Shows(net, Key(f))
    BY <2>1, <2>2 DEF Shows
  <2> QED
    BY <1>2, <1>3, <2>1, <2>3, ShowsRenews, FilterStep
<1>12. CASE AuditRefresh
  <2>1. Flown(net, Key(f))
    BY <1>12 DEF AuditRefresh, Fetching, IsFetch, Flown
  <2>2. net' = AskRows(Unasked(net, Key(f)), Key(f)) /\ UNCHANGED <<page, mounted, f, q, db, used>>
    BY <1>12 DEF AuditRefresh
  <2> QED
    BY <1>1, <1>2, <1>3, <2>1, <2>2, RowsRefetched, FilterStep
<1> QED
  BY <1>5, <1>6, <1>7, <1>8, <1>9, <1>10, <1>11, <1>12

\* The selection and the dialog.
LEMMA TogglesKeep == SearchInv /\ ((\E r \in Row : toggleSelect(r)) \/ clearSelection \/ openImport \/ closeImport) => SearchInv'
<1> SUFFICES ASSUME SearchInv, (\E r \in Row : toggleSelect(r)) \/ clearSelection \/ openImport \/ closeImport PROVE SearchInv'
  OBVIOUS
<1>1. f \in SearchFs /\ mounted \in BOOLEAN /\ used \in Nat /\ IsFiniteSet(f.sel) /\ f.sel \subseteq Row
  BY SearchParts DEF AreClosed, SearchFs
<1>2. ASSUME NEW S \in SUBSET Row, IsFiniteSet(S), Does([f EXCEPT !.sel = S]) PROVE SearchInv'
  <2>1. f' \in SearchFs /\ f'.busy = f.busy /\ f'.wait = f.wait /\ f'.closed = f.closed /\ f'.sel = S
    BY <1>1, <1>2 DEF Does, SearchFs
  <2>2. UNCHANGED <<page, mounted, q, db, used, net>>
    BY <1>2 DEF Does
  <2> QED
    BY <1>1, <1>2, <2>1, <2>2, NotRenewed, RenewStep
<1>3. ASSUME NEW o \in {"no", "ask"}, Does([f EXCEPT !.open = o]) PROVE SearchInv'
  <2>1. f' \in SearchFs /\ f'.busy = f.busy /\ f'.wait = f.wait /\ f'.closed = f.closed /\ f'.sel = f.sel
    BY <1>1, <1>3 DEF Does, SearchFs
  <2>2. UNCHANGED <<page, mounted, q, db, used, net>>
    BY <1>3 DEF Does
  <2> QED
    BY <1>1, <2>1, <2>2, NotRenewed, RenewStep
<1>4. CASE \E r \in Row : toggleSelect(r)
  <2>1. PICK r \in Row : toggleSelect(r)
    BY <1>4
  <2> DEFINE S == IF r \in f.sel THEN f.sel \ {r} ELSE f.sel \cup {r}
  <2>2. Does([f EXCEPT !.sel = S])
    BY <2>1 DEF toggleSelect
  <2>3. S \in SUBSET Row
    BY <1>1
  <2>4. IsFiniteSet(S)
    BY <1>1, FS_RemoveElement, FS_AddElement
  <2> HIDE DEF S
  <2> QED
    BY <1>2, <2>2, <2>3, <2>4
<1>5. CASE clearSelection
  <2> DEFINE S == {}
  <2>1. S \in SUBSET Row /\ IsFiniteSet(S) /\ Does([f EXCEPT !.sel = S])
    BY <1>5, FS_EmptySet DEF clearSelection
  <2> HIDE DEF S
  <2> QED
    BY <1>2, <2>1
<1>6. CASE openImport \/ closeImport
  BY <1>3, <1>6 DEF openImport, closeImport
<1> QED
  BY <1>4, <1>5, <1>6

\* The analyst returns.
LEMMA SearchReturnKeeps == SearchInv /\ SearchReturn => SearchInv'
<1> SUFFICES ASSUME SearchInv, SearchReturn PROVE SearchInv'
  OBVIOUS
<1>1. f \in SearchFs /\ IsFiniteSet(f.sel) /\ used \in Nat
  BY SearchParts DEF AreClosed
<1>2. Renewed(q, db, net, net')
  BY <1>1, KeyIs, ShowsRenews DEF SearchReturn
<1>3. mounted' \in BOOLEAN /\ (mounted => mounted')
  BY DEF SearchReturn
<1> QED
  BY <1>1, <1>2, <1>3, RenewStep DEF SearchReturn

\* A call whose page is gone.
LEMMA SearchOrphan ==
  ASSUME NEW m \in SearchCalls
  PROVE  /\ [m EXCEPT !.live = FALSE] \in SearchCalls
         /\ \A k : k = [m EXCEPT !.live = FALSE] =>
              k.kind = m.kind /\ k.st = m.st /\ k.ok = m.ok /\ k.res = m.res /\ k.arg = m.arg /\ ~k.live
<1> DEFINE k == [m EXCEPT !.live = FALSE]
<1>1. CASE m.kind = "none"
  <2>1. m = NoCall
    BY <1>1, SearchCallIs
  <2>2. k = m
    BY <2>1, NoCallDead
  <2> QED
    BY <2>1, <2>2, NoCallIs
<1>2. CASE m.kind # "none"
  <2>1. PICK K, A, R : m \in CallsOf(K, A, R) /\ CallsOf(K, A, R) \subseteq SearchCalls
    BY <1>2, SearchCallOf
  <2>2. k \in CallsOf(K, A, R)
    BY Zenon, <2>1, CallMoves
  <2>3. m \in [st : {"sent", "answered", "broken"}, kind : K, arg : A, try : 1..2, ok : BOOLEAN,
               res : R \cup {Nothing, "absent"}, live : BOOLEAN]
    BY <2>1 DEF CallsOf
  <2>4. k.kind = m.kind /\ k.st = m.st /\ k.ok = m.ok /\ k.res = m.res /\ k.arg = m.arg /\ ~k.live
    BY <2>3
  <2> QED
    BY <2>1, <2>2, <2>4
<1> QED
  BY <1>1, <1>2

\* The analyst leaves.
LEMMA SearchLeaveKeeps == SearchInv /\ SearchLeave => SearchInv'
<1> SUFFICES ASSUME SearchInv, SearchLeave PROVE SearchInv'
  OBVIOUS
<1>1. /\ db \in SearchDbs /\ q \in SearchQs /\ f \in SearchFs /\ net \in [Slot -> SearchCalls] /\ used \in Nat
      /\ Shown(q, db) /\ Fetches(q, db, net) /\ Batches(page, db, net) /\ Blocked(page, mounted, f, net)
  BY SearchParts
<1>2. /\ mounted' = FALSE /\ f' = [SearchF EXCEPT !.moves = f.moves] /\ net' = Orphaned(net) /\ page' = page /\ q' = q /\ db' = db
      /\ used' = used + 1
  BY DEF SearchLeave, Leaves, Event
<1>3. ASSUME NEW c \in Slot
      PROVE  /\ net'[c] \in SearchCalls
             /\ \/ net[c].kind \in Reads /\ net'[c] = NoCall
                \/ /\ net[c].kind \notin Reads /\ net'[c].kind = net[c].kind /\ net'[c].st = net[c].st /\ net'[c].ok = net[c].ok
                   /\ net'[c].res = net[c].res /\ net'[c].arg = net[c].arg /\ ~net'[c].live
  <2> DEFINE m == net[c]
  <2>1. net'[c] = IF m.kind \in Reads THEN NoCall ELSE [m EXCEPT !.live = FALSE]
    BY <1>2 DEF Orphaned
  <2>2. m \in SearchCalls
    BY <1>1
  <2> HIDE DEF m
  <2>3. NoCall \in SearchCalls
    BY SearchCallIs DEF Calling
  <2> QED
    BY <2>1, <2>2, <2>3, SearchOrphan DEF m
<1>4. net' \in [Slot -> SearchCalls]
  BY <1>2, <1>3 DEF Orphaned
<1>5. NoCall.kind = "none" /\ ~NoCall.live
  BY NoCallIs
<1>6. Fetches(q, db, net')
  <2>1. \A c \in Slot : net'[c].kind = "rows" => /\ net[c].kind = "rows" /\ net'[c].st = net[c].st /\ net'[c].ok = net[c].ok
                                                 /\ net'[c].res = net[c].res /\ net'[c].arg = net[c].arg
    BY <1>3, <1>5
  <2> HIDE <1>3, <1>2
  <2> QED
    BY <1>1, <2>1 DEF Fetches
<1>7. Batches(page, db, net')
  <2> SUFFICES ASSUME NEW c \in Slot, net'[c].kind = "bulk"
               PROVE  /\ page = "dashboard"
                      /\ net'[c].st = "answered" /\ net'[c].ok => db.rows[net'[c].arg.row] = "off"
                      /\ ~net'[c].arg.lost => \A r \in net'[c].arg.sent :
                           db.rows[r] = "off" \/ \E b \in Slot : net'[b].kind = "bulk" /\ net'[b].arg.id = net'[c].arg.id /\ net'[b].arg.row = r
    BY DEF Batches
  <2>1. "bulk" \notin Reads /\ net[c].kind = "bulk" /\ net'[c].st = net[c].st /\ net'[c].ok = net[c].ok /\ net'[c].arg = net[c].arg
    BY <1>3, <1>5
  <2>2. page = "dashboard" /\ (net[c].st = "answered" /\ net[c].ok => db.rows[net[c].arg.row] = "off")
    BY <1>1, <2>1 DEF Batches
  <2>3. ASSUME ~net[c].arg.lost, NEW r \in net[c].arg.sent, db.rows[r] # "off"
        PROVE  \E b \in Slot : net'[b].kind = "bulk" /\ net'[b].arg.id = net[c].arg.id /\ net'[b].arg.row = r
    <3>1. PICK b \in Slot : net[b].kind = "bulk" /\ net[b].arg.id = net[c].arg.id /\ net[b].arg.row = r
      BY <1>1, <2>1, <2>3 DEF Batches
    <3>2. net'[b].kind = "bulk" /\ net'[b].arg = net[b].arg
      BY <1>3, <2>1, <3>1
    <3> QED
      BY <3>1, <3>2
  <2> QED
    BY <2>1, <2>2, <2>3
<1>8. f' \in SearchFs /\ f'.busy = "no" /\ f'.sel = {} /\ f'.closed = {}
  <2> DEFINE v == f.moves
  <2>1. v \in Nat
    BY <1>1 DEF SearchFs
  <2>2. f' = [SearchF EXCEPT !.moves = v]
    BY <1>2
  <2> HIDE DEF v
  <2>3. SearchF \in SearchFs /\ SearchF.busy = "no" /\ SearchF.sel = {} /\ SearchF.closed = {}
    BY DEF SearchF, SearchFs, FirstKey, ShownKeys
  <2> HIDE DEF SearchF
  <2> QED
    BY <2>1, <2>2, <2>3 DEF SearchFs
<1>9. AreClosed(page, f', db)
  BY <1>8, FS_EmptySet DEF AreClosed
<1>10. Blocked(page, mounted', f', net')
  <2>1. \A c \in Slot : net'[c].kind = "import" => page = "iocs" /\ ~net'[c].live
    BY <1>1, <1>3, <1>5 DEF Blocked
  <2> QED
    BY <1>8, <2>1 DEF Blocked
<1>11. mounted' \in BOOLEAN /\ used' \in Nat
  <2>1. used' = used + 1 /\ used \in Nat
    BY <1>1, <1>2
  <2>2. used' \in Nat
    BY <2>1
  <2> QED
    BY <1>2, <2>2
<1> QED
  BY <1>1, <1>2, <1>4, <1>6, <1>7, <1>8, <1>9, <1>10, <1>11, SearchStep

\* The fetches of the keys, when other calls come and go.
LEMMA FetchesSame == \A e, d, n, m : Same(n, m, {"rows"}) /\ Fetches(e, d, n) => Fetches(e, d, m)
<1> SUFFICES ASSUME NEW e, NEW d, NEW n, NEW m, Same(n, m, {"rows"}), Fetches(e, d, n) PROVE Fetches(e, d, m)
  OBVIOUS
<1>1. \A c \in Slot : m[c].kind = "rows" => m[c] = n[c]
  BY DEF Same
<1> QED
  BY <1>1 DEF Fetches

\* A fetch ends.
LEMMA RowsEnd ==
  ASSUME SearchInv, NEW c \in Slot, net[c].kind = "rows", net' = Without(net, c), f' = RowsReloaded(c),
         page' = page, mounted' = mounted, db' = db, used' = used, q' \in SearchQs, Shown(q', db),
         Fetches(q', db, Without(net, c))
  PROVE  SearchInv'
<1>1. /\ mounted \in BOOLEAN /\ f \in SearchFs /\ net \in [Slot -> SearchCalls] /\ used \in Nat
      /\ Fetches(q, db, net) /\ Batches(page, db, net) /\ AreClosed(page, f, db) /\ Blocked(page, mounted, f, net)
  BY SearchParts
<1>2. net' \in [Slot -> SearchCalls] /\ Same(net, net', {"bulk"}) /\ Same(net, net', {"import"})
  BY <1>1, SearchCallIs, RestStays
<1>3. Batches(page, db, net')
  BY <1>1, <1>2, SearchSame
<1> DEFINE g == [f EXCEPT !.busy = "no", !.wait = FirstKey]
<1>4. g \in SearchFs /\ g.busy = "no" /\ g.sel = f.sel /\ g.closed = f.closed
  <2>1. FirstKey \in ShownKeys
    BY DEF FirstKey, ShownKeys
  <2> QED
    BY <1>1, <2>1 DEF SearchFs
<1>5. f' = IF f.busy = "reload" /\ f.wait = net[c].arg.key THEN g ELSE f
  BY DEF RowsReloaded
<1> HIDE DEF g
<1>6. f' \in SearchFs /\ AreClosed(page, f', db)
  BY <1>1, <1>4, <1>5 DEF AreClosed
<1>7. Blocked(page, mounted, f', net')
  <2>1. Held(net, "import") => Held(net', "import")
    BY <1>2, SearchSame
  <2>2. f.wait # net[c].arg.key /\ Flown(net, f.wait) => Flown(net', f.wait)
    <3>1. \A b \in Slot : b # c => net'[b] = net[b]
      BY <1>1, SearchCallIs, Leaving DEF Calling
    <3> QED
      BY <3>1 DEF Flown
  <2>3. \A b \in Slot : net'[b].kind = "import" => page = "iocs" /\ (net'[b].live => mounted = TRUE)
    <3>1. \A b \in Slot : net'[b].kind = "import" => net'[b] = net[b]
      BY <1>2 DEF Same
    <3> QED
      BY <1>1, <3>1 DEF Blocked
  <2>4. CASE f' = g
    BY <1>4, <2>3, <2>4 DEF Blocked
  <2>5. CASE f' = f /\ ~(f.busy = "reload" /\ f.wait = net[c].arg.key)
    BY <1>1, <2>1, <2>2, <2>3, <2>5 DEF Blocked
  <2> QED
    BY <1>5, <2>4, <2>5
<1> QED
  BY <1>1, <1>2, <1>3, <1>6, <1>7, SearchStep

\* Rows that arrive, are asked for again or fail keep the invariant.
LEMMA RowsKeep == \A c \in Slot : SearchInv /\ (RowsArrive(c) \/ RowsAgain(c) \/ RowsFail(c)) => SearchInv'
<1> SUFFICES ASSUME NEW c \in Slot, SearchInv, RowsArrive(c) \/ RowsAgain(c) \/ RowsFail(c) PROVE SearchInv'
  OBVIOUS
<1>1. /\ db \in SearchDbs /\ q \in SearchQs /\ f \in SearchFs /\ net \in [Slot -> SearchCalls] /\ used \in Nat
      /\ Shown(q, db) /\ Fetches(q, db, net)
  BY SearchParts
<1>2. net[c].kind = "rows" /\ page' = page /\ mounted' = mounted /\ db' = db /\ used' = used
  BY DEF RowsArrive, RowsAgain, RowsFail, Resolved, Rejected
<1> DEFINE k == net[c].arg.key
           n == Without(net, c)
<1>3. /\ net[c].arg \in [key : ShownKeys, val : {"first", "again"}] /\ k \in ShownKeys
      /\ net[c].st = "answered" /\ net[c].ok => net[c].res \in Entries
  BY <1>1, <1>2, SearchArgs
<1>4. n[c] = NoCall /\ NoCall.kind = "none" /\ \A b \in Slot : b # c => n[b] = net[b]
  BY <1>1, SearchCallIs, Leaving, NoCallIs DEF Calling
<1> HIDE DEF n
<1>5. CASE RowsArrive(c)
  <2> DEFINE R == [q.rows EXCEPT ![k] = net[c].res]
  <2>1. q' = [q EXCEPT !.rows = R] /\ net' = n /\ f' = RowsReloaded(c) /\ net[c].st = "answered" /\ net[c].ok
    BY <1>5 DEF RowsArrive, Resolved, n
  <2>2. Fits(k, net[c].res) /\ net[c].res.ver <= db.ver
    BY <1>1, <1>2, <2>1 DEF Fetches
  <2>3. q.rows \in [ShownKeys -> Entries]
    BY <1>1 DEF SearchQs
  <2>4. R \in [ShownKeys -> Entries] /\ R[k] = net[c].res /\ \A j \in ShownKeys : j # k => R[j] = q.rows[j]
    BY <1>3, <2>1, <2>3
  <2> HIDE DEF R
  <2>5. q' \in SearchQs /\ q'.rows = R
    BY <1>1, <2>1, <2>4 DEF SearchQs
  <2>6. Shown(q', db)
    BY <1>1, <2>2, <2>4, <2>5 DEF Shown
  <2>7. Fetches(q', db, n)
    <3>1. \A b \in Slot : n[b].kind = "rows" => b # c /\ n[b] = net[b] /\ net[b].arg.key # k /\ net[b].arg.key \in ShownKeys
      <4>1. \A b \in Slot : net[b].kind = "rows" => net[b].arg.key \in ShownKeys /\ (b # c => net[b].arg.key # k)
        BY <1>1, <1>2, SearchArgs DEF Fetches
      <4> QED
        BY <1>4, <4>1
    <3>2. \A b \in Slot : n[b].kind = "rows" => q'.rows[n[b].arg.key] = q.rows[n[b].arg.key]
      BY <2>4, <2>5, <3>1
    <3> QED
      BY <1>1, <3>1, <3>2 DEF Fetches
  <2> QED
    BY <1>2, <2>1, <2>5, <2>6, <2>7, RowsEnd DEF n
<1>6. CASE RowsFail(c)
  <2>1. q' = q /\ net' = n /\ f' = RowsReloaded(c)
    BY <1>6 DEF RowsFail, n
  <2>2. Fetches(q, db, n)
    <3>1. \A b \in Slot : n[b].kind = "rows" => n[b] = net[b]
      BY <1>4
    <3> QED
      BY <1>1, <3>1 DEF Fetches
  <2> QED
    BY <1>1, <1>2, <2>1, <2>2, RowsEnd DEF n
<1>7. CASE RowsAgain(c)
  <2> DEFINE a == [net[c].arg EXCEPT !.val = "again"]
             l == net[c].live
             m == NewCall("rows", a, l)
  <2>1. net' = [net EXCEPT ![c] = m] /\ f' = f /\ q' = q
    BY <1>7 DEF RowsAgain
  <2>2. a \in [key : ShownKeys, val : {"first", "again"}] /\ a.key = k
    BY <1>3
  <2>3. l \in BOOLEAN
    BY <1>1, SearchCallIs
  <2> HIDE DEF a, l
  <2>4. m \in RowsCalls /\ m.st = "sent" /\ m.kind = "rows" /\ m.arg = a /\ m.live = l
    <3> DEFINE A == [key : ShownKeys, val : {"first", "again"}]
    <3>1. a \in A
      BY <2>2
    <3> HIDE DEF A
    <3>2. m.st = "sent" /\ m.kind = "rows" /\ m.arg = a /\ m.live = l
      BY <2>3, NewCallIs
    <3>3. m \in CallsOf({"rows"}, A, Entries)
      BY <2>3, <3>1, NewCallIs
    <3> QED
      BY <3>2, <3>3 DEF RowsCalls, A
  <2> HIDE DEF m
  <2>5. m \in SearchCalls
    BY <2>4 DEF SearchCalls
  <2>6. db.ver <= db.ver /\ m.st # "answered"
    BY <1>1, <2>4 DEF SearchDbs
  <2> QED
    BY <1>1, <1>2, <2>1, <2>2, <2>4, <2>5, <2>6, SearchCallStep DEF l
<1> QED
  BY <1>5, <1>6, <1>7

\* A request of a batch that closed its incident ends.
LEMMA BatchShrinks ==
  ASSUME SearchInv, NEW c \in Slot, Resolved(c, "bulk")
  PROVE  Batches(page, db, Without(net, c)) /\ page = "dashboard" /\ db.rows[net[c].arg.row] = "off"
<1> DEFINE n == Without(net, c)
<1>1. net \in [Slot -> SearchCalls] /\ Batches(page, db, net) /\ net[c].kind = "bulk" /\ net[c].st = "answered" /\ net[c].ok
  BY SearchParts DEF Resolved
<1>2. page = "dashboard" /\ db.rows[net[c].arg.row] = "off"
  BY <1>1 DEF Batches
<1>3. n[c] = NoCall /\ NoCall.kind = "none" /\ \A b \in Slot : b # c => n[b] = net[b]
  BY <1>1, SearchCallIs, Leaving, NoCallIs DEF Calling
<1> HIDE DEF n
<1>4. ASSUME NEW b \in Slot, n[b].kind = "bulk"
      PROVE  /\ page = "dashboard"
             /\ n[b].st = "answered" /\ n[b].ok => db.rows[n[b].arg.row] = "off"
             /\ ~n[b].arg.lost => \A r \in n[b].arg.sent :
                  db.rows[r] = "off" \/ \E a \in Slot : n[a].kind = "bulk" /\ n[a].arg.id = n[b].arg.id /\ n[a].arg.row = r
  <2>1. n[b] = net[b]
    BY <1>3, <1>4
  <2>2. ASSUME ~n[b].arg.lost, NEW r \in n[b].arg.sent, db.rows[r] # "off"
        PROVE  \E a \in Slot : n[a].kind = "bulk" /\ n[a].arg.id = n[b].arg.id /\ n[a].arg.row = r
    <3>1. PICK a \in Slot : net[a].kind = "bulk" /\ net[a].arg.id = n[b].arg.id /\ net[a].arg.row = r
      BY <1>1, <1>4, <2>1, <2>2 DEF Batches
    <3>2. a # c
      BY <1>2, <2>2, <3>1
    <3> QED
      BY <1>3, <3>1, <3>2
  <2> QED
    BY <1>1, <1>2, <1>4, <2>1, <2>2 DEF Batches
<1>5. Batches(page, db, n)
  BY <1>4 DEF Batches
<1> QED
  BY <1>2, <1>5 DEF n

\* A batch goes on, one of its requests less.
LEMMA PatchKeeps == \A c \in Slot : SearchInv /\ PatchDone(c) => SearchInv'
<1> SUFFICES ASSUME NEW c \in Slot, SearchInv, PatchDone(c) PROVE SearchInv'
  OBVIOUS
<1>1. /\ mounted \in BOOLEAN /\ q \in SearchQs /\ f \in SearchFs /\ net \in [Slot -> SearchCalls] /\ used \in Nat
      /\ Shown(q, db) /\ Fetches(q, db, net) /\ AreClosed(page, f, db) /\ Blocked(page, mounted, f, net)
  BY SearchParts
<1>2. Resolved(c, "bulk") /\ net' = Without(net, c) /\ f' = f /\ UNCHANGED <<page, mounted, q, db, used>>
  BY DEF PatchDone, Then
<1>3. page = "dashboard" /\ Batches(page, db, net')
  BY <1>2, BatchShrinks
<1>4. net' \in [Slot -> SearchCalls] /\ Same(net, net', {"rows"}) /\ Same(net, net', {"import"})
  BY <1>1, <1>2, SearchCallIs, RestStays DEF Resolved
<1>5. Blocked(page, mounted, f, net')
  <2>1. \A b \in Slot : net'[b].kind = "import" => net'[b] = net[b]
    BY <1>4 DEF Same
  <2> QED
    BY <1>1, <1>3, <2>1 DEF Blocked
<1> QED
  BY <1>1, <1>2, <1>3, <1>4, <1>5, FetchesSame, SearchStep

\* The last request of a batch: everything it was asked to close is closed.
LEMMA ClosedKeeps == \A c \in Slot : SearchInv /\ BulkClosed(c) => SearchInv'
<1> SUFFICES ASSUME NEW c \in Slot, SearchInv, BulkClosed(c) PROVE SearchInv'
  OBVIOUS
<1>1. /\ mounted \in BOOLEAN /\ f \in SearchFs /\ net \in [Slot -> SearchCalls] /\ used \in Nat
      /\ Batches(page, db, net) /\ AreClosed(page, f, db) /\ Blocked(page, mounted, f, net)
  BY SearchParts
<1> DEFINE n == Without(net, c)
<1>2. /\ Resolved(c, "bulk") /\ OfBatch(c) = {} /\ ~net[c].arg.lost /\ q' = MarkRows /\ net' = InvalidateRows(n)
      /\ UNCHANGED <<page, mounted, db, used>>
  BY DEF BulkClosed
<1>3. net[c].kind = "bulk" /\ net[c].kind # "rows"
  BY <1>2 DEF Resolved
<1>4. page = "dashboard" /\ Batches(page, db, n) /\ db.rows[net[c].arg.row] = "off"
  BY <1>2, BatchShrinks
<1>5. Renewed(q, db, n, net')
  BY <1>2, <1>3, Invalidated
<1>6. n \in [Slot -> SearchCalls] /\ Same(net, n, {"import"})
  BY <1>1, <1>3, SearchCallIs, RestStays
<1> HIDE DEF n
<1>7. net' \in [Slot -> SearchCalls] /\ Fetches(q, db, net') /\ Same(n, net', {"bulk"}) /\ Same(n, net', {"import"})
  BY <1>5, SearchSame DEF Renewed
<1>8. q' \in SearchQs /\ Shown(q', db) /\ Fetches(q', db, net')
  BY <1>2, <1>7, MarkedRows
<1>9. Batches(page, db, net')
  BY <1>4, <1>7, SearchSame
<1>10. \A r \in net[c].arg.sent : db.rows[r] = "off"
  <2> SUFFICES ASSUME NEW r \in net[c].arg.sent, db.rows[r] # "off" PROVE FALSE
    OBVIOUS
  <2>1. PICK b \in Slot : net[b].kind = "bulk" /\ net[b].arg.id = net[c].arg.id /\ net[b].arg.row = r
    BY <1>1, <1>2, <1>3 DEF Batches
  <2>2. b # c
    BY <1>4, <2>1
  <2>3. net[b].st # "idle"
    BY <1>1, <2>1, SearchCallIs
  <2> QED
    BY <1>2, <2>1, <2>2, <2>3 DEF OfBatch
<1> DEFINE S == net[c].arg.sent
           T == {}
           g == [f EXCEPT !.sel = T, !.closed = S]
<1>11. S \in SUBSET Row
  BY <1>1, <1>3, SearchArgs
<1>12. T \in SUBSET Row /\ IsFiniteSet(T)
  BY FS_EmptySet
<1>13. f' = IF net[c].live THEN g ELSE f
  BY DEF BulkClosed
<1>14. \A r \in S : db.rows[r] = "off"
  BY <1>10
<1> HIDE DEF S, T
<1>15. g \in SearchFs /\ g.sel = T /\ g.closed = S /\ g.busy = f.busy
  BY <1>1, <1>11, <1>12 DEF SearchFs
<1> HIDE DEF g
<1>16. f' \in SearchFs /\ AreClosed(page, f', db) /\ f'.busy = f.busy
  BY <1>1, <1>12, <1>13, <1>14, <1>15 DEF AreClosed
<1>17. Blocked(page, mounted, f', net')
  <2>1. \A b \in Slot : net'[b].kind = "import" => net'[b] = n[b] /\ n[b] = net[b]
    BY <1>6, <1>7 DEF Same
  <2> QED
    BY <1>1, <1>4, <1>16, <2>1 DEF Blocked
<1> QED
  BY <1>1, <1>2, <1>7, <1>8, <1>9, <1>16, <1>17, SearchStep

\* A request of a batch was refused: nobody waits for the others.
LEMMA RefusedKeeps == \A c \in Slot : SearchInv /\ BulkFails(c) => SearchInv'
<1> SUFFICES ASSUME NEW c \in Slot, SearchInv, BulkFails(c) PROVE SearchInv'
  OBVIOUS
<1>1. /\ mounted \in BOOLEAN /\ q \in SearchQs /\ f \in SearchFs /\ net \in [Slot -> SearchCalls] /\ used \in Nat
      /\ Shown(q, db) /\ Fetches(q, db, net) /\ Batches(page, db, net) /\ AreClosed(page, f, db) /\ Blocked(page, mounted, f, net)
  BY SearchParts
<1>2. /\ net[c].kind = "bulk" /\ f' = f /\ UNCHANGED <<page, mounted, q, db, used>>
      /\ net' = [d \in Slot |-> IF d \in OfBatch(c) THEN [net[d] EXCEPT !.arg.lost = TRUE] ELSE Without(net, c)[d]]
  BY DEF BulkFails, Then, Rejected
<1>3. Without(net, c)[c] = NoCall /\ NoCall.kind = "none" /\ \A b \in Slot : b # c => Without(net, c)[b] = net[b]
  BY <1>1, SearchCallIs, Leaving, NoCallIs DEF Calling
<1>4. \A d \in Slot : d \in OfBatch(c) <=> d # c /\ net[d].kind = "bulk" /\ net[d].arg.id = net[c].arg.id
  <2>1. \A d \in Slot : net[d].kind = "bulk" => net[d].st # "idle"
    BY <1>1, SearchCallIs
  <2> QED
    BY <2>1 DEF OfBatch
<1>5. net'[c] = NoCall
  BY <1>2, <1>3, <1>4
<1>6. ASSUME NEW d \in Slot, d # c, d \notin OfBatch(c) PROVE net'[d] = net[d]
  BY <1>2, <1>3, <1>6
<1>7. ASSUME NEW d \in OfBatch(c)
      PROVE  /\ net'[d] \in BulkCalls /\ net'[d].kind = "bulk" /\ net'[d].st = net[d].st /\ net'[d].ok = net[d].ok
             /\ net'[d].arg.row = net[d].arg.row /\ net'[d].arg.id = net[d].arg.id /\ net'[d].arg.lost
  <2> DEFINE m == net[d]
             a == [m.arg EXCEPT !.lost = TRUE]
             k == [m EXCEPT !.arg = a]
             A == [row : Row, sent : SUBSET Row, id : Nat, lost : BOOLEAN]
  <2>1. d \in Slot /\ m.kind = "bulk" /\ net'[d] = [m EXCEPT !.arg.lost = TRUE]
    BY <1>2, <1>4, <1>7 DEF OfBatch
  <2>2. m \in BulkCalls /\ m.arg \in A
    BY <1>1, <2>1, SearchCallIs, SearchArgs
  <2>3. a \in A /\ a.row = m.arg.row /\ a.id = m.arg.id /\ a.lost
    BY <2>2
  <2>4. net'[d] = k
    BY <2>1
  <2> HIDE DEF a
  <2>5. m \in [st : {"sent", "answered", "broken"}, kind : {"bulk"}, arg : A, try : 1..2, ok : BOOLEAN,
               res : {Nothing} \cup {Nothing, "absent"}, live : BOOLEAN]
    BY <2>2 DEF BulkCalls, CallsOf
  <2>6. m.st = "answered" /\ m.ok => m.res \in {Nothing}
    BY <2>2 DEF BulkCalls, CallsOf
  <2> HIDE DEF A, m
  <2>7. /\ k \in [st : {"sent", "answered", "broken"}, kind : {"bulk"}, arg : A, try : 1..2, ok : BOOLEAN,
                  res : {Nothing} \cup {Nothing, "absent"}, live : BOOLEAN]
        /\ k.arg = a /\ k.st = m.st /\ k.ok = m.ok /\ k.kind = "bulk" /\ k.res = m.res
    BY <2>3, <2>5
  <2> HIDE DEF k
  <2>8. k \in CallsOf({"bulk"}, A, {Nothing})
    BY <2>6, <2>7, CallParts
  <2> QED
    BY <2>3, <2>4, <2>7, <2>8 DEF BulkCalls, A, m
<1>8. net' \in [Slot -> SearchCalls]
  <2>1. \A d \in Slot : net'[d] \in SearchCalls
    <3> SUFFICES ASSUME NEW d \in Slot PROVE net'[d] \in SearchCalls
      OBVIOUS
    <3>1. NoCall \in SearchCalls /\ BulkCalls \subseteq SearchCalls
      BY DEF SearchCalls
    <3> QED
      BY <1>1, <1>5, <1>6, <1>7, <3>1
  <2> QED
    BY <1>2, <2>1
<1>9. Same(net, net', {"rows"}) /\ Same(net, net', {"import"})
  <2>1. ASSUME NEW d \in Slot, net[d].kind # "bulk" PROVE net'[d] = net[d]
    BY <1>2, <1>4, <1>6, <2>1
  <2>2. ASSUME NEW d \in Slot, net[d].kind = "bulk" PROVE net'[d].kind \in {"none", "bulk"}
    BY <1>3, <1>5, <1>6, <1>7, <2>2
  <2> HIDE <1>2
  <2> QED
    BY <2>1, <2>2 DEF Same
<1>10. Batches(page, db, net')
  <2> SUFFICES ASSUME NEW b \in Slot, net'[b].kind = "bulk"
               PROVE  /\ page = "dashboard"
                      /\ net'[b].st = "answered" /\ net'[b].ok => db.rows[net'[b].arg.row] = "off"
                      /\ ~net'[b].arg.lost => \A r \in net'[b].arg.sent :
                           db.rows[r] = "off" \/ \E a \in Slot : net'[a].kind = "bulk" /\ net'[a].arg.id = net'[b].arg.id /\ net'[a].arg.row = r
    BY DEF Batches
  <2>1. b # c
    BY <1>3, <1>5
  <2>2. CASE b \in OfBatch(c)
    <3>1. net[b].kind = "bulk"
      BY <1>4, <2>2
    <3>2. page = "dashboard" /\ (net[b].st = "answered" /\ net[b].ok => db.rows[net[b].arg.row] = "off")
      BY <1>1, <3>1 DEF Batches
    <3> QED
      BY <1>7, <2>2, <3>2
  <2>3. CASE b \notin OfBatch(c)
    <3>1. net'[b] = net[b] /\ net[b].arg.id # net[c].arg.id
      BY <1>4, <1>6, <2>1, <2>3
    <3>2. page = "dashboard" /\ (net[b].st = "answered" /\ net[b].ok => db.rows[net[b].arg.row] = "off")
      BY <1>1, <3>1 DEF Batches
    <3>3. ASSUME ~net[b].arg.lost, NEW r \in net[b].arg.sent, db.rows[r] # "off"
          PROVE  \E a \in Slot : net'[a].kind = "bulk" /\ net'[a].arg.id = net[b].arg.id /\ net'[a].arg.row = r
      <4>1. PICK a \in Slot : net[a].kind = "bulk" /\ net[a].arg.id = net[b].arg.id /\ net[a].arg.row = r
        BY <1>1, <3>1, <3>3 DEF Batches
      <4>2. net'[a] = net[a]
        BY <1>4, <1>6, <3>1, <4>1
      <4> QED
        BY <4>1, <4>2
    <3> QED
      BY <3>1, <3>2, <3>3
  <2> QED
    BY <2>2, <2>3
<1>11. Blocked(page, mounted, f, net')
  <2>1. \A b \in Slot : net'[b].kind = "import" => net'[b] = net[b]
    BY <1>9 DEF Same
  <2>2. page = "dashboard"
    BY <1>1, <1>2 DEF Batches
  <2> QED
    BY <1>1, <2>1, <2>2 DEF Blocked
<1>12. Fetches(q, db, net')
  BY <1>1, <1>9, FetchesSame
<1> HIDE <1>2
<1> QED
  BY <1>1, <1>2, <1>8, <1>10, <1>11, <1>12, SearchStep

\* A finite set fits into one that is not smaller.
LEMMA Seats ==
  ASSUME NEW S, IsFiniteSet(S), NEW T, IsFiniteSet(T), Cardinality(T) >= Cardinality(S)
  PROVE  \E s \in [S -> T] : \A x, y \in S : s[x] = s[y] => x = y
<1> DEFINE n == Cardinality(S)
           m == Cardinality(T)
<1>1. n \in Nat /\ m \in Nat /\ m >= n /\ ExistsBijection(1..n, S) /\ ExistsBijection(1..m, T)
  BY FS_CardinalityType
<1> HIDE DEF n, m
<1>2. PICK b : b \in [1..n -> S] /\ \A x \in S : \E i \in 1..n : b[i] = x
  BY <1>1 DEF ExistsBijection, Bijection, Surjection, Injection
<1>3. PICK d : d \in [1..m -> T] /\ \A i, j \in 1..m : d[i] = d[j] => i = j
  BY <1>1 DEF ExistsBijection, Bijection, Injection, IsInjective
<1> DEFINE at(x) == CHOOSE i \in 1..n : b[i] = x
           s == [x \in S |-> d[at(x)]]
<1>4. \A x \in S : at(x) \in 1..n /\ b[at(x)] = x
  BY <1>2
<1> HIDE DEF at
<1>5. \A x \in S : at(x) \in 1..m
  BY <1>1, <1>4
<1>6. s \in [S -> T] /\ \A x \in S : s[x] = d[at(x)]
  BY <1>3, <1>5
<1> HIDE DEF s
<1>7. \A x, y \in S : s[x] = s[y] => x = y
  BY <1>3, <1>4, <1>5, <1>6
<1> QED
  BY <1>6, <1>7

\* CLOSE_ALL: one request per selected incident, all at once.
LEMMA BulkCloseKeeps == SearchInv /\ handleBulkClose => SearchInv'
<1> SUFFICES ASSUME SearchInv, handleBulkClose PROVE SearchInv'
  OBVIOUS
<1>1. /\ mounted \in BOOLEAN /\ q \in SearchQs /\ f \in SearchFs /\ net \in [Slot -> SearchCalls] /\ used \in Nat
      /\ Shown(q, db) /\ Fetches(q, db, net) /\ Batches(page, db, net) /\ AreClosed(page, f, db) /\ Blocked(page, mounted, f, net)
  BY SearchParts
<1> DEFINE S == f.sel
           F == FreeIn(net)
           Fair(s) == s \in [S -> F] /\ \A x, y \in S : s[x] = s[y] => x = y
           slot == CHOOSE s \in [S -> F] : \A x, y \in S : s[x] = s[y] => x = y
           a(r) == [row |-> r, sent |-> S, id |-> used, lost |-> FALSE]
           call(r) == Sent("bulk", a(r))
<1>2. /\ page = "dashboard" /\ used' = used + 1 /\ Cardinality(F) >= Cardinality(S) /\ UNCHANGED <<page, mounted, f, q, db>>
      /\ net' = [c \in Slot |-> IF \E r \in S : slot[r] = c THEN call(CHOOSE r \in S : slot[r] = c) ELSE net[c]]
  BY DEF handleBulkClose, Event, Room, OnPage, Sent
<1>3. S \subseteq Row /\ IsFiniteSet(S) /\ F \subseteq Slot /\ IsFiniteSet(F)
  <2>1. S \subseteq Row /\ IsFiniteSet(S)
    BY <1>1 DEF SearchFs, AreClosed
  <2>2. F \in SUBSET Slot
    BY DEF FreeIn
  <2>3. IsFiniteSet(F)
    BY <2>2, CallsAssumption, FS_Subset
  <2> QED
    BY <2>1, <2>2, <2>3
<1>4. slot \in [S -> F] /\ \A x, y \in S : slot[x] = slot[y] => x = y
  <2> HIDE DEF S, F
  <2>1. \E s \in [S -> F] : \A x, y \in S : s[x] = s[y] => x = y
    BY <1>2, <1>3, Seats
  <2> QED
    BY <2>1
<1>5. ASSUME NEW r \in S PROVE a(r) \in [row : Row, sent : SUBSET Row, id : Nat, lost : BOOLEAN] /\ ~a(r).lost /\ a(r).row = r /\ a(r).id = used /\ a(r).sent = S
  <2> DEFINE no == FALSE
             b == [row |-> r, sent |-> S, id |-> used, lost |-> no]
  <2>1. no \in BOOLEAN /\ ~no
    OBVIOUS
  <2>2. a(r) = b
    BY Zenon
  <2> HIDE DEF no, a
  <2>3. b \in [row : Row, sent : SUBSET Row, id : Nat, lost : BOOLEAN] /\ b.lost = no /\ b.row = r /\ b.id = used /\ b.sent = S
    BY <1>1, <1>3, <1>5, <2>1
  <2> QED
    BY <2>1, <2>2, <2>3
<1> HIDE DEF a
<1>6. ASSUME NEW r \in S
      PROVE  /\ call(r) \in SearchCalls /\ call(r).kind = "bulk" /\ call(r).st = "sent" /\ call(r).arg = a(r)
  <2>1. call(r).kind = "bulk" /\ call(r).st = "sent" /\ call(r).arg = a(r)
    BY HeldCallIs
  <2>2. call(r) \in BulkCalls
    BY <1>5, <1>6, HeldCallIs DEF BulkCalls
  <2> QED
    BY <2>1, <2>2 DEF SearchCalls
<1> HIDE DEF call, slot
<1>7. ASSUME NEW r \in S PROVE slot[r] \in F /\ slot[r] \in Slot /\ net'[slot[r]] = call(r)
  <2>1. slot[r] \in F /\ slot[r] \in Slot
    BY <1>3, <1>4, <1>7
  <2> DEFINE x == CHOOSE y \in S : slot[y] = slot[r]
  <2>2. x \in S /\ slot[x] = slot[r]
    BY <1>7
  <2>3. x = r
    BY <1>4, <1>7, <2>2
  <2>4. net'[slot[r]] = call(x)
    BY <1>2, <1>7, <2>1
  <2> QED
    BY <2>1, <2>3, <2>4
<1>8. \A c \in Slot : (\A r \in S : slot[r] # c) => net'[c] = net[c]
  BY <1>2
<1>9. net' \in [Slot -> SearchCalls]
  <2>1. \A c \in Slot : net'[c] \in SearchCalls
    BY <1>1, <1>6, <1>7, <1>8
  <2> QED
    BY <1>2, <2>1
<1> HIDE <1>2
<1>10. \A c \in Slot : net[c].kind # "none" => net'[c] = net[c]
  <2>1. \A c \in F : net[c].kind = "none"
    BY <1>1, SearchCallIs DEF FreeIn, Calling
  <2> HIDE DEF F
  <2> QED
    BY <1>7, <1>8, <2>1
<1>11. \A c \in Slot : net[c].kind = "none" => net'[c] = net[c] \/ \E r \in S : c = slot[r] /\ net'[c] = call(r)
  BY <1>7, <1>8
<1>12. Same(net, net', {"rows"}) /\ Same(net, net', {"import"})
  BY <1>6, <1>10, <1>11 DEF Same
<1>13. page = "dashboard" /\ used' = used + 1 /\ UNCHANGED <<page, mounted, f, q, db>>
  BY <1>2
<1>14. Batches(page, db, net')
  <2> SUFFICES ASSUME NEW b \in Slot, net'[b].kind = "bulk"
               PROVE  /\ net'[b].st = "answered" /\ net'[b].ok => db.rows[net'[b].arg.row] = "off"
                      /\ ~net'[b].arg.lost => \A r \in net'[b].arg.sent :
                           db.rows[r] = "off" \/ \E c \in Slot : net'[c].kind = "bulk" /\ net'[c].arg.id = net'[b].arg.id /\ net'[c].arg.row = r
    BY <1>13 DEF Batches
  <2>1. CASE net[b].kind # "none"
    <3>1. net'[b] = net[b]
      BY <1>10, <2>1
    <3>2. net[b].st = "answered" /\ net[b].ok => db.rows[net[b].arg.row] = "off"
      BY <1>1, <3>1 DEF Batches
    <3>3. ASSUME ~net[b].arg.lost, NEW r \in net[b].arg.sent, db.rows[r] # "off"
          PROVE  \E c \in Slot : net'[c].kind = "bulk" /\ net'[c].arg.id = net[b].arg.id /\ net'[c].arg.row = r
      <4>1. PICK c \in Slot : net[c].kind = "bulk" /\ net[c].arg.id = net[b].arg.id /\ net[c].arg.row = r
        BY <1>1, <3>1, <3>3 DEF Batches
      <4>2. net'[c] = net[c]
        BY <1>10, <4>1
      <4> QED
        BY <4>1, <4>2
    <3> QED
      BY <3>1, <3>2, <3>3
  <2>2. CASE net[b].kind = "none"
    <3>1. PICK x \in S : net'[b] = call(x)
      BY <1>11, <2>2
    <3>2. net'[b].st = "sent" /\ net'[b].arg.sent = S /\ net'[b].arg.id = used
      BY <1>5, <1>6, <3>1
    <3>3. ASSUME NEW r \in S PROVE \E c \in Slot : net'[c].kind = "bulk" /\ net'[c].arg.id = used /\ net'[c].arg.row = r
      BY <1>5, <1>6, <1>7, <3>3
    <3> QED
      BY <3>2, <3>3
  <2> QED
    BY <2>1, <2>2
<1>15. Blocked(page, mounted, f, net')
  <2>1. \A b \in Slot : net'[b].kind = "import" => net'[b] = net[b]
    BY <1>12 DEF Same
  <2> QED
    BY <1>1, <1>13, <2>1 DEF Blocked
<1>16. Fetches(q, db, net')
  BY <1>1, <1>12, FetchesSame
<1>17. used' \in Nat
  BY <1>1, <1>13
<1> HIDE DEF S, F
<1> QED
  BY <1>1, <1>9, <1>13, <1>14, <1>15, <1>16, <1>17, SearchStep

\* The import: the dialog stays blocked until its answer, and then until the
\* rows on the screen are there again.
LEMMA ImportedKeeps == \A c \in Slot : SearchInv /\ Imported(c) => SearchInv'
<1> SUFFICES ASSUME NEW c \in Slot, SearchInv, Imported(c) PROVE SearchInv'
  OBVIOUS
<1>1. /\ mounted \in BOOLEAN /\ f \in SearchFs /\ net \in [Slot -> SearchCalls] /\ used \in Nat
      /\ Batches(page, db, net) /\ AreClosed(page, f, db) /\ Blocked(page, mounted, f, net)
  BY SearchParts
<1> DEFINE n == Without(net, c)
           k == Key(f)
           o == IF f.open = "ask" THEN "told" ELSE f.open
           g == [f EXCEPT !.busy = "reload", !.wait = k, !.open = o]
<1>2. /\ net[c].kind = "import" /\ q' = MarkRows /\ net' = InvalidateRows(n) /\ f' = IF net[c].live THEN g ELSE f
      /\ UNCHANGED <<page, mounted, db, used>>
  BY DEF Imported, Resolved
<1>3. page = "iocs" /\ (net[c].live => mounted = TRUE)
  BY <1>1, <1>2 DEF Blocked
<1>4. Renewed(q, db, n, net') /\ (mounted => Flown(net', k))
  BY <1>2, Invalidated
<1>5. n \in [Slot -> SearchCalls] /\ Same(net, n, {"bulk"}) /\ Same(net, n, {"rows"})
  BY <1>1, <1>2, SearchCallIs, RestStays
<1>6. n[c] = NoCall /\ NoCall.kind = "none" /\ \A b \in Slot : b # c => n[b] = net[b]
  BY <1>1, SearchCallIs, Leaving, NoCallIs DEF Calling
<1>7. k \in ShownKeys
  BY <1>1, KeyIs
<1>8. o \in {"no", "ask", "told"}
  BY <1>1 DEF SearchFs
<1> HIDE DEF n, k, o
<1>9. g \in SearchFs /\ g.busy = "reload" /\ g.wait = k /\ g.sel = f.sel /\ g.closed = f.closed
  BY <1>1, <1>7, <1>8 DEF SearchFs
<1> HIDE DEF g
<1>10. net' \in [Slot -> SearchCalls] /\ Fetches(q, db, net') /\ Same(n, net', {"bulk"}) /\ Same(n, net', {"import"})
  BY <1>4, SearchSame DEF Renewed
<1>11. q' \in SearchQs /\ Shown(q', db) /\ Fetches(q', db, net')
  BY <1>2, <1>10, MarkedRows
<1>12. Batches(page, db, net')
  BY <1>1, <1>5, <1>10, SearchSame
<1>13. f' \in SearchFs /\ AreClosed(page, f', db)
  BY <1>1, <1>2, <1>9 DEF AreClosed
<1>14. Blocked(page, mounted, f', net')
  <2>1. \A b \in Slot : net'[b].kind = "import" => page = "iocs" /\ (net'[b].live => mounted = TRUE)
    <3>1. \A b \in Slot : net'[b].kind = "import" => net'[b] = net[b]
      BY <1>6, <1>10 DEF Same
    <3> QED
      BY <1>1, <3>1 DEF Blocked
  <2>2. CASE net[c].live
    BY <1>2, <1>3, <1>4, <1>9, <2>1, <2>2 DEF Blocked
  <2>3. CASE ~net[c].live
    <3>1. Held(net, "import") => Held(n, "import")
      BY <1>6, <2>3 DEF Held
    <3>2. Held(n, "import") => Held(net', "import")
      BY <1>10, SearchSame
    <3>3. Flown(net, f.wait) => Flown(net', f.wait)
      <4>1. f.wait \in ShownKeys
        BY <1>1 DEF SearchFs
      <4>2. Flown(net, f.wait) => Flown(n, f.wait)
        BY <1>5, SearchSame
      <4> QED
        BY <1>4, <4>1, <4>2 DEF Renewed
    <3> QED
      BY <1>1, <1>2, <2>1, <2>3, <3>1, <3>2, <3>3 DEF Blocked
  <2> QED
    BY <2>2, <2>3
<1> QED
  BY <1>1, <1>2, <1>10, <1>11, <1>12, <1>13, <1>14, SearchStep

\* An import of IOCs that fails frees its slot and the form.
LEMMA ImportFailsKeeps == \A c \in Slot : SearchInv /\ ImportFails(c) => SearchInv'
<1> SUFFICES ASSUME NEW c \in Slot, SearchInv, ImportFails(c) PROVE SearchInv'
  OBVIOUS
<1>1. /\ mounted \in BOOLEAN /\ f \in SearchFs /\ q \in SearchQs /\ net \in [Slot -> SearchCalls] /\ used \in Nat
      /\ Shown(q, db) /\ Fetches(q, db, net) /\ Batches(page, db, net) /\ AreClosed(page, f, db) /\ Blocked(page, mounted, f, net)
  BY SearchParts
<1> DEFINE g == [f EXCEPT !.busy = "no"]
<1>2. net[c].kind = "import" /\ net' = Without(net, c) /\ f' = (IF net[c].live THEN g ELSE f) /\ UNCHANGED <<page, mounted, q, db, used>>
  BY DEF ImportFails, Then, Rejected
<1>3. net' \in [Slot -> SearchCalls] /\ Same(net, net', {"bulk"}) /\ Same(net, net', {"rows"})
  BY <1>1, <1>2, SearchCallIs, RestStays
<1>4. net'[c] = NoCall /\ NoCall.kind = "none" /\ \A b \in Slot : b # c => net'[b] = net[b]
  BY <1>1, <1>2, SearchCallIs, Leaving, NoCallIs DEF Calling
<1>5. g \in SearchFs /\ g.busy = "no" /\ g.sel = f.sel /\ g.closed = f.closed
  BY <1>1 DEF SearchFs
<1> HIDE DEF g
<1>6. f' \in SearchFs /\ AreClosed(page, f', db)
  BY <1>1, <1>2, <1>5 DEF AreClosed
<1>7. Batches(page, db, net') /\ Fetches(q, db, net')
  BY <1>1, <1>3, SearchSame, FetchesSame
<1>8. Blocked(page, mounted, f', net')
  <2>1. \A b \in Slot : net'[b].kind = "import" => page = "iocs" /\ (net'[b].live => mounted = TRUE)
    BY <1>1, <1>4 DEF Blocked
  <2>2. CASE net[c].live
    BY <1>2, <1>5, <2>1, <2>2 DEF Blocked
  <2>3. CASE ~net[c].live
    <3>1. Held(net, "import") => Held(net', "import")
      BY <1>4, <2>3 DEF Held
    <3>2. Flown(net, f.wait) => Flown(net', f.wait)
      BY <1>3, SearchSame
    <3> QED
      BY <1>1, <1>2, <2>1, <2>3, <3>1, <3>2 DEF Blocked
  <2> QED
    BY <2>2, <2>3
<1> QED
  BY <1>1, <1>2, <1>3, <1>6, <1>7, <1>8, SearchStep

\* Sending the import takes a free slot, and the form waits for it.
LEMMA BulkImportKeeps == SearchInv /\ handleBulkImport => SearchInv'
<1> SUFFICES ASSUME SearchInv, handleBulkImport PROVE SearchInv'
  OBVIOUS
<1>1. /\ mounted \in BOOLEAN /\ f \in SearchFs /\ q \in SearchQs /\ net \in [Slot -> SearchCalls] /\ used \in Nat
      /\ Shown(q, db) /\ Fetches(q, db, net) /\ Batches(page, db, net) /\ AreClosed(page, f, db) /\ Blocked(page, mounted, f, net)
  BY SearchParts
<1> DEFINE x == Sent("import", Nothing)
           k == [x EXCEPT !.try = MAX_RETRIES]
           s == Least(FreeIn(net))
           g == [f EXCEPT !.busy = "post"]
<1>2. /\ page = "iocs" /\ mounted /\ used' = used + 1 /\ Cardinality(FreeIn(net)) >= 1 /\ f' = g /\ net' = [net EXCEPT ![s] = k]
      /\ UNCHANGED <<page, mounted, q, db>>
  BY DEF handleBulkImport, OnPage, Event, Room, Sent
<1>3. s \in Slot /\ net[s].kind = "none"
  <2>1. FreeIn(net) # {}
    BY <1>2, RoomIs
  <2>2. FreeIn(net) \subseteq Nat
    <3> DEFINE last == Cardinality(Slot)
    <3>1. Slot = 1..last /\ last \in Nat
      BY CallsAssumption, FS_CardinalityType
    <3> HIDE DEF last
    <3> QED
      BY <3>1 DEF FreeIn
  <2>3. \E y \in FreeIn(net) : \A z \in FreeIn(net) : y <= z
    BY <2>1, <2>2, LeastNatural
  <2>4. s \in FreeIn(net)
    BY <2>3 DEF Least
  <2> HIDE DEF s
  <2> QED
    BY <1>1, <2>4, SearchCallIs DEF FreeIn, Calling
<1> HIDE DEF s
<1>4. k \in SearchCalls /\ k.kind = "import" /\ k.live
  <2>1. x \in CallsOf({"import"}, {Nothing}, {Nothing}) /\ x.st = "sent" /\ x.live
    BY HeldCallIs
  <2> HIDE DEF x
  <2>2. x \in [st : {"sent", "answered", "broken"}, kind : {"import"}, arg : {Nothing}, try : 1..2, ok : BOOLEAN,
               res : {Nothing} \cup {Nothing, "absent"}, live : BOOLEAN]
    BY <2>1 DEF CallsOf
  <2> DEFINE t == MAX_RETRIES
  <2>3. t \in 1..2
    BY DEF MAX_RETRIES
  <2> HIDE DEF t
  <2>4. /\ k \in [st : {"sent", "answered", "broken"}, kind : {"import"}, arg : {Nothing}, try : 1..2, ok : BOOLEAN,
                  res : {Nothing} \cup {Nothing, "absent"}, live : BOOLEAN]
        /\ k.st = "sent" /\ k.live
    BY <2>1, <2>2, <2>3 DEF t
  <2> HIDE DEF k
  <2>5. k \in ImportCalls
    BY <2>4, CallParts DEF ImportCalls
  <2> QED
    BY <2>4, <2>5 DEF SearchCalls
<1> HIDE DEF k
<1>5. net' \in [Slot -> SearchCalls] /\ net'[s] = k /\ \A b \in Slot : b # s => net'[b] = net[b]
  BY <1>1, <1>2, <1>3, <1>4
<1>6. g \in SearchFs /\ g.busy = "post" /\ g.sel = f.sel /\ g.closed = f.closed
  BY <1>1 DEF SearchFs
<1> HIDE DEF g
<1>7. Same(net, net', {"bulk"}) /\ Same(net, net', {"rows"})
  BY <1>3, <1>4, <1>5 DEF Same
<1>8. f' \in SearchFs /\ AreClosed(page, f', db)
  BY <1>1, <1>2, <1>6 DEF AreClosed
<1>9. Batches(page, db, net') /\ Fetches(q, db, net')
  BY <1>1, <1>7, SearchSame, FetchesSame
<1>10. mounted = TRUE
  BY <1>1, <1>2
<1>11. Blocked(page, mounted, f', net')
  <2>1. Held(net', "import")
    BY <1>3, <1>4, <1>5 DEF Held
  <2> QED
    BY <1>2, <1>6, <1>10, <2>1 DEF Blocked
<1>12. used' \in Nat
  BY <1>1, <1>2
<1> QED
  BY <1>1, <1>2, <1>5, <1>8, <1>9, <1>11, <1>12, SearchStep

\* A page as it starts.
LEMMA SearchStarts == FrameInit /\ SearchInit /\ used = 0 => SearchInv
<1> SUFFICES ASSUME FrameInit, SearchInit, used = 0 PROVE SearchInv
  OBVIOUS
<1> DEFINE o == [c \in Slot |-> NoCall]
           k == Key(SearchF)
<1>1. mounted \in BOOLEAN /\ mounted = TRUE /\ f = SearchF /\ net = AskRows(o, k)
  BY DEF FrameInit, SearchInit
<1>2. SearchF \in SearchFs /\ SearchF.busy = "no" /\ SearchF.sel = {} /\ SearchF.closed = {}
  BY DEF SearchF, SearchFs, FirstKey, ShownKeys
<1>3. k \in ShownKeys
  BY <1>2, KeyIs
<1>4. o \in [Slot -> SearchCalls] /\ FreeIn(o) # {} /\ \A c \in Slot : o[c] = NoCall
  <2>1. NoCall \in SearchCalls
    BY SearchCallIs DEF Calling
  <2> QED
    BY <2>1, NoCallIs, CallsAssumption DEF FreeIn
<1> HIDE DEF o, k
<1>5. \A c \in Slot : o[c].kind = "none"
  BY <1>4, NoCallIs
<1>6. ~Flown(o, k) /\ \A e, d : Fetches(e, d, o)
  BY <1>5 DEF Flown, Fetches
<1>7. net \in [Slot -> SearchCalls] /\ Same(o, net, {"bulk", "import"}) /\ \A e, d : Fetches(e, d, net)
  BY <1>1, <1>3, <1>4, <1>6, RowsAsked
<1>8. \A c \in Slot : net[c].kind # "bulk" /\ net[c].kind # "import"
  BY <1>5, <1>7 DEF Same
<1>9. q \in SearchQs /\ \A j \in ShownKeys : q.rows[j] = NoEntry
  <2> DEFINE R == [j \in ShownKeys |-> NoEntry]
             z == FALSE
  <2>1. q = [NoData EXCEPT !.rows = R]
    BY DEF SearchInit
  <2>2. NoEntry \in Entries
    <3> DEFINE e == [have |-> z, ver |-> 0, items |-> <<>>, total |-> 0, inv |-> z]
    <3>1. z \in BOOLEAN
      OBVIOUS
    <3>2. NoEntry = e
      BY Zenon DEF NoEntry
    <3>3. <<>> \in Items
      <4>1. <<>> \in [{} -> Value]
        OBVIOUS
      <4> QED
        BY <4>1 DEF Items
    <3>4. 0 \in Totals
      BY DEF Totals
    <3> HIDE DEF z
    <3>5. e \in Entries
      BY <3>1, <3>3, <3>4 DEF Entries
    <3> QED
      BY <3>2, <3>5
  <2>3. R \in [ShownKeys -> Entries] /\ \A j \in ShownKeys : R[j] = NoEntry
    BY <2>2
  <2> HIDE DEF R
  <2>4. NoData \in [have : BOOLEAN, ver : {0}, rows : {Nothing}, err : BOOLEAN, inv : BOOLEAN]
    BY DEF NoData
  <2> HIDE DEF NoData
  <2>5. q \in SearchQs /\ q.rows = R
    BY <2>1, <2>3, <2>4 DEF SearchQs
  <2> QED
    BY <2>3, <2>5
<1>10. db \in SearchDbs
  <2> DEFINE A == [r \in Row |-> IF r \in Row THEN "on" ELSE "none"]
             B == [r \in Row |-> IF r \in {Self} THEN "on" ELSE "none"]
             C == [r \in Row |-> IF r = Self THEN "on" ELSE "off"]
  <2>1. A \in [Row -> Value] /\ B \in [Row -> Value] /\ C \in [Row -> Value]
    BY DEF Value
  <2>2. db = [ver |-> 0, rows |-> A] \/ db = [ver |-> 0, rows |-> B] \/ db = [ver |-> 0, rows |-> C]
    BY DEF SearchInit, Table, SearchPage
  <2> HIDE DEF A, B, C
  <2> QED
    BY <2>1, <2>2 DEF SearchDbs
<1>11. Shown(q, db)
  <2>1. NoEntry.items = <<>> /\ NoEntry.ver = 0
    BY DEF NoEntry
  <2>2. db.ver \in Nat
    BY <1>10 DEF SearchDbs
  <2>3. \A j \in ShownKeys : DOMAIN q.rows[j].items = {} /\ q.rows[j].ver <= db.ver
    BY <1>9, <2>1, <2>2
  <2> QED
    BY <2>3 DEF Shown, Fits
<1>12. Batches(page, db, net) /\ AreClosed(page, f, db) /\ Blocked(page, mounted, f, net)
  <2>1. Batches(page, db, net)
    BY <1>8 DEF Batches
  <2>2. AreClosed(page, f, db)
    BY <1>1, <1>2, FS_EmptySet DEF AreClosed
  <2>3. Blocked(page, mounted, f, net)
    BY <1>1, <1>2, <1>8 DEF Blocked
  <2> QED
    BY <2>1, <2>2, <2>3
<1>13. SearchOK(page, mounted, f, q, db, net)
  BY <1>1, <1>2, <1>7, <1>9, <1>10, <1>11, <1>12 DEF SearchOK
<1> QED
  BY <1>13 DEF SearchInv

\* On a search page only its own steps happen, and they keep its invariant.
LEMMA SearchNext == page \in SearchPage /\ SearchInv /\ [IncidentNext]_frame => SearchInv'
<1> SUFFICES ASSUME page \in SearchPage, SearchInv, [IncidentNext]_frame PROVE SearchInv'
  OBVIOUS
<1>1. page \notin JobPages /\ page # "timeline" /\ page # "console"
  BY DEF JobPages, SearchPage
<1>2. net \in [Slot -> SearchCalls]
  BY SearchParts
<1>3. \A c \in Slot : ~Waiting(c, JobKinds) /\ ~Waiting(c, TimelineKinds) /\ ~Waiting(c, {"list"})
  <2>1. \A c \in Slot : net[c].kind \in {"none"} \cup SearchKinds /\ (net[c].st # "idle" => net[c].kind # "none")
    BY <1>2, SearchCallIs
  <2> QED
    BY <2>1 DEF Waiting, SearchKinds, TimelineKinds, JobKinds
<1>4. ASSUME NEW c \in Slot,
             \/ ServeList(c) \/ JobServed(c) \/ SearchServed(c) \/ TimelineServed(c)
             \/ JobContinued(c) \/ SearchContinued(c) \/ TimelineContinued(c)
             \/ FetchAgain(c) \/ Retries(c) \/ Breaks(c) \/ Unserved(c) \/ Outage(c)
      PROVE  SearchInv'
  <2>1. SearchServed(c) \/ SearchContinued(c) \/ Retries(c) \/ Breaks(c) \/ Unserved(c)
    BY <1>3, <1>4, CallPage
  <2>2. SearchContinued(c) => SearchInv'
    BY RowsKeep, PatchKeeps, ClosedKeeps, RefusedKeeps, ImportedKeeps, ImportFailsKeeps DEF SearchContinued
  <2> QED
    BY <2>1, <2>2, SearchServedKeeps, SearchNetKeeps
<1>5. CASE SearchUser
  <2>1. \/ activeCard \/ clearFilter \/ passSearch \/ nextPage \/ prevPage \/ AuditTick \/ AuditRefresh
        \/ \E v \in {"all", "on"} : statusSelect(v) \/ setActiveType(v) \/ setEventType(v) \/ setSeverity(v)
        \/ \E t \in {"", "self"} : setIncidentSearch(t) \/ setTargetId(t) \/ setHitSearch(t)
        \/ (\E r \in Row : toggleSelect(r)) \/ clearSelection \/ openImport \/ closeImport
        \/ handleBulkClose \/ handleBulkImport \/ SearchLeave \/ SearchReturn
        \/ \E r \in Row, v \in Value : Elsewhere(r, v)
    BY <1>5 DEF SearchUser
  <2> QED
    BY <2>1, FiltersKeep, TogglesKeep, BulkCloseKeeps, BulkImportKeeps, SearchLeaveKeeps, SearchReturnKeeps, ElsewhereKeeps
<1>6. CASE UNCHANGED frame
  BY <1>6 DEF frame, SearchInv
<1> QED
  BY <1>1, <1>4, <1>5, <1>6, JobUserPage, TimelineUserPage, ConsoleStepPage DEF IncidentNext

\* On its pages SearchInv holds.
SearchHolds == page \in SearchPage => SearchInv

\* It holds in every state in which a search is the page.
LEMMA SearchPageHolds == IncidentSpec => []SearchHolds
<1>1. IncidentInit => SearchHolds
  <2> SUFFICES ASSUME IncidentInit, page \in SearchPage PROVE SearchInv
    BY DEF SearchHolds
  <2>1. FrameInit /\ SearchInit /\ used = 0
    BY DEF IncidentInit, JobInit, TimelineInit, ConsoleInit, JobPages, SearchPage
  <2> QED
    BY <2>1, SearchStarts
<1>2. SearchHolds /\ [IncidentNext]_frame => SearchHolds'
  <2> SUFFICES ASSUME SearchHolds, [IncidentNext]_frame, page' \in SearchPage PROVE SearchInv'
    BY DEF SearchHolds
  <2>1. page \in SearchPage
    BY PageStays DEF JobPages, SearchPage
  <2> QED
    BY <2>1, SearchNext DEF SearchHolds
<1> QED
  BY <1>1, <1>2, PTL DEF IncidentSpec

\* Dashboard.tsx, handleBulkClose: CLOSE_ALL clears the selection only when
\* every incident it was asked to close is closed, whatever requests of it were
\* refused, lost or timed out, and whatever other batch is in flight beside it.
THEOREM BulkCloseTruthfulHolds == IncidentSpec => []BulkCloseTruthful
<1>1. SearchHolds => BulkCloseTruthful
  <2> SUFFICES ASSUME SearchHolds, page = "dashboard" PROVE \A r \in f.closed : db.rows[r] = "off"
    BY DEF BulkCloseTruthful
  <2>1. SearchInv
    BY DEF SearchHolds, SearchPage
  <2> QED
    BY <2>1, SearchParts DEF AreClosed
<1> QED
  BY <1>1, SearchPageHolds, PTL

\* The query keys of the search pages: the rows on the screen fit the filter
\* and the text that are applied.
LEMMA RowsFitFilterHolds == IncidentSpec => []RowsFitFilter
<1>1. SearchHolds => RowsFitFilter
  <2> SUFFICES ASSUME SearchHolds, OnSearch
               PROVE  \A r \in DOMAIN entry.items : (f.flt = "all" \/ entry.items[r] = f.flt) /\ (f.search = "" \/ r = Self)
    BY DEF RowsFitFilter
  <2>1. SearchInv
    BY DEF SearchHolds, OnSearch
  <2>2. f \in SearchFs /\ Shown(q, db)
    BY <2>1, SearchParts
  <2> DEFINE k == Key(f)
  <2>3. k \in ShownKeys /\ k.search = f.search /\ k.flt = f.flt
    BY <2>2, KeyIs
  <2>4. entry = q.rows[k]
    BY DEF entry
  <2> HIDE DEF k
  <2>5. Fits(k, entry)
    BY <2>2, <2>3, <2>4 DEF Shown
  <2> QED
    BY <2>3, <2>5 DEF Fits
<1> QED
  BY <1>1, SearchPageHolds, PTL

\* useAdaptivePolling, the finally blocks of the pages and the import dialog of
\* IOCMatches.tsx: a poller, a disabled button and a blocked dialog have the
\* request in flight that ends them, after any losses, timeouts and refusals,
\* and although the page is left and shown again.
THEOREM NothingStuckHolds == IncidentSpec => []NothingStuck
<1>1. SearchHolds => ImportHasCall
  <2> SUFFICES ASSUME SearchHolds, page = "iocs", mounted
               PROVE  (f.busy = "post" => Pending("import")) /\ (f.busy = "reload" => Fetching(f.wait))
    BY DEF ImportHasCall
  <2>1. SearchInv
    BY DEF SearchHolds, SearchPage
  <2>2. net \in [Slot -> SearchCalls] /\ Blocked(page, mounted, f, net)
    BY <2>1, SearchParts
  <2>3. \A c \in Slot : net[c].kind \in {"rows", "import"} => net[c].st # "idle"
    BY <2>2, SearchCallIs
  <2>4. Held(net, "import") => Pending("import")
    BY <2>3 DEF Held, Pending
  <2>5. Flown(net, f.wait) => Fetching(f.wait)
    BY <2>3 DEF Flown, Fetching, IsFetch
  <2> QED
    BY <2>2, <2>4, <2>5 DEF Blocked
<1>2. PollersAlive /\ ImportHasCall => NothingStuck
  BY DEF NothingStuck
<1> QED
  BY <1>1, <1>2, SearchPageHolds, PollersAliveHolds, PTL

-----------------------------------------------------------------------------
(* The timeline page.                                                      *)

TimelineDbs  == [ver : Nat, rows : [Row -> Value], st : {"none", "BUILDING", "DONE", "FAILED"}, build : 0..MaxBuild]
TimelineQs   == [have : BOOLEAN, ver : Nat, rows : {Nothing} \cup [Row -> Value], err : BOOLEAN, inv : BOOLEAN]
TimelineFs   == [told : {"unknown", "error", "none", "BUILDING", "DONE", "FAILED"}, build : 1..MaxBuild, flt : {"all", "host"}, no : 1..2,
                 rows : [RowKeys -> 0..MaxBuild], posting : BOOLEAN, exporting : BOOLEAN, saving : BOOLEAN, importing : BOOLEAN,
                 acked : Nat, moves : Nat]
NoteLists    == [ver : Nat, rows : [Row -> Value], new : {None}]
Tellings     == [st : {"none", "BUILDING", "DONE", "FAILED"}, build : 0..MaxBuild]
NoteKinds    == {"note", "unnote", "send"}
ListCalls    == CallsOf({"list"}, [row : {"page"}, val : {"first", "again"}], NoteLists)
ToldCalls    == CallsOf({"tlstatus"}, {Nothing}, Tellings)
TlRowsCalls  == CallsOf({"tlrows"}, RowKeys, 0..MaxBuild)
ButtonCalls  == CallsOf({"build", "export"}, {Nothing}, {Nothing})
Notings      == [row : Row, val : {"on", "off"}, rest : SUBSET Row]
NoteCalls    == CallsOf(NoteKinds, Notings, Nat)
TimelineCalls == {NoCall} \cup ListCalls \cup ToldCalls \cup TlRowsCalls \cup ButtonCalls \cup NoteCalls

\* The rows of a key are of the build it names or of a later one, and the page
\* names no build before there is one.
Builds(g, d, n) ==
  /\ (d.st = "DONE" => d.build >= 1) /\ (d.st = "BUILDING" => d.build < MaxBuild)
  /\ g.told = "DONE" => g.build <= d.build
  /\ \A k \in RowKeys : g.rows[k] = 0 \/ g.rows[k] >= k.build
  /\ \A c \in Slot : n[c].kind = "tlstatus" /\ n[c].st = "answered" /\ n[c].ok =>
       n[c].res.build <= d.build /\ (n[c].res.st = "DONE" => n[c].res.build >= 1)
  /\ \A c \in Slot : n[c].kind = "tlrows" => n[c].arg.build <= d.build /\ (n[c].st = "answered" /\ n[c].ok => n[c].res >= n[c].arg.build)

\* One fetch of the annotations at a time, and none brings older ones.
Listed(e, d, n) ==
  /\ e.ver <= d.ver
  /\ \A c \in Slot : n[c].kind = "list" =>
       /\ n[c].st = "answered" /\ n[c].ok => e.ver <= n[c].res.ver /\ n[c].res.ver <= d.ver
       /\ \A b \in Slot : n[b].kind = "list" => b = c

\* Annotations are changed only once they were read; one import at a time.
Noted(on, g, e, d, n) ==
  /\ g.acked <= d.ver
  /\ \A c \in Slot : n[c].kind \in NoteKinds =>
       /\ e.have /\ (n[c].live => on = TRUE)
       /\ n[c].st = "answered" /\ n[c].ok => n[c].res <= d.ver
  /\ \A c \in Slot : n[c].kind = "send" /\ n[c].live =>
       g.importing /\ \A b \in Slot : n[b].kind = "send" /\ n[b].live => b = c

\* What was saved is shown, or fetched, unless the last fetch failed.
Fresh(g, e, n) ==
  ~g.importing => /\ g.acked <= e.ver \/ e.err \/ Flying(n, "list")
                  /\ \A c \in Slot : n[c].kind = "list" /\ n[c].st = "answered" /\ n[c].ok => g.acked <= n[c].res.ver

TimelineOK(on, g, e, d, n) ==
  /\ on \in BOOLEAN /\ d \in TimelineDbs /\ e \in TimelineQs /\ g \in TimelineFs /\ n \in [Slot -> TimelineCalls]
  /\ Builds(g, d, n) /\ Listed(e, d, n) /\ Noted(on, g, e, d, n) /\ Fresh(g, e, n)
TimelineInv == TimelineOK(mounted, f, q, db, net)

\* The calls by their kinds.
LEMMA TimelineCallIs ==
  /\ Calling(TimelineCalls)
  /\ \A k \in TimelineCalls :
       /\ k.kind \in {"none", "list"} \cup TimelineKinds
       /\ k.kind = "list" => k \in ListCalls
       /\ k.kind = "tlstatus" => k \in ToldCalls
       /\ k.kind = "tlrows" => k \in TlRowsCalls
       /\ k.kind \in {"build", "export"} => k \in ButtonCalls
       /\ k.kind \in NoteKinds => k \in NoteCalls
       /\ k.kind = "none" => k = NoCall
       /\ k.st = "idle" <=> k.kind = "none"
       /\ k.live \in BOOLEAN /\ k.ok \in BOOLEAN
<1>1. \A K, A, R : \A n \in CallsOf(K, A, R) : n.kind \in K /\ n.st # "idle" /\ n.live \in BOOLEAN /\ n.ok \in BOOLEAN
  BY DEF CallsOf
<1>2. NoCall.kind = "none" /\ NoCall.st = "idle" /\ NoCall.live \in BOOLEAN /\ NoCall.ok \in BOOLEAN
  BY DEF NoCall
<1>3. \A k \in ListCalls : k.kind = "list" /\ k.st # "idle" /\ k.live \in BOOLEAN /\ k.ok \in BOOLEAN
  BY <1>1 DEF ListCalls
<1>4. \A k \in ToldCalls : k.kind = "tlstatus" /\ k.st # "idle" /\ k.live \in BOOLEAN /\ k.ok \in BOOLEAN
  BY <1>1 DEF ToldCalls
<1>5. \A k \in TlRowsCalls : k.kind = "tlrows" /\ k.st # "idle" /\ k.live \in BOOLEAN /\ k.ok \in BOOLEAN
  BY <1>1 DEF TlRowsCalls
<1>6. \A k \in ButtonCalls : k.kind \in {"build", "export"} /\ k.st # "idle" /\ k.live \in BOOLEAN /\ k.ok \in BOOLEAN
  BY <1>1 DEF ButtonCalls
<1>7. \A k \in NoteCalls : k.kind \in NoteKinds /\ k.st # "idle" /\ k.live \in BOOLEAN /\ k.ok \in BOOLEAN
  BY <1>1 DEF NoteCalls
<1>8. /\ NoCall \in TimelineCalls
      /\ \A k \in TimelineCalls : \/ k = NoCall \/ k \in ListCalls \/ k \in ToldCalls \/ k \in TlRowsCalls
                                  \/ k \in ButtonCalls \/ k \in NoteCalls
  BY DEF TimelineCalls
<1> QED
  BY <1>2, <1>3, <1>4, <1>5, <1>6, <1>7, <1>8 DEF TimelineKinds, NoteKinds, Calling

\* A call of this page is one of five sorts.
LEMMA TimelineCallOf ==
  ASSUME NEW m \in TimelineCalls, m.kind # "none"
  PROVE  \E K, A, R : /\ m \in CallsOf(K, A, R) /\ CallsOf(K, A, R) \subseteq TimelineCalls
                      /\ (m.kind = "list" => R = NoteLists)
                      /\ (m.kind = "tlstatus" => R = Tellings)
                      /\ (m.kind = "tlrows" => R = 0..MaxBuild)
                      /\ (m.kind \in {"build", "export"} => R = {Nothing})
                      /\ (m.kind \in NoteKinds => R = Nat)
<1>1. m \in ListCalls \/ m \in ToldCalls \/ m \in TlRowsCalls \/ m \in ButtonCalls \/ m \in NoteCalls
  BY TimelineCallIs DEF TimelineKinds, NoteKinds
<1>2. /\ ListCalls \subseteq TimelineCalls /\ ToldCalls \subseteq TimelineCalls /\ TlRowsCalls \subseteq TimelineCalls
      /\ ButtonCalls \subseteq TimelineCalls /\ NoteCalls \subseteq TimelineCalls
  BY DEF TimelineCalls
<1>3. \A K, A, R : \A n \in CallsOf(K, A, R) : n.kind \in K
  BY DEF CallsOf
<1>4. CASE m \in ListCalls
  <2> DEFINE K == {"list"}
             A == [row : {"page"}, val : {"first", "again"}]
             R == NoteLists
  <2>1. m \in CallsOf(K, A, R) /\ CallsOf(K, A, R) \subseteq TimelineCalls
    BY <1>2, <1>4 DEF ListCalls
  <2>2. m.kind \in K
    BY <1>3, <2>1
  <2>3. m.kind = "list" /\ m.kind \notin NoteKinds
    BY <2>2 DEF NoteKinds
  <2>4. R = NoteLists
    OBVIOUS
  <2> HIDE DEF K, A, R
  <2> QED
    BY <2>1, <2>3, <2>4
<1>5. CASE m \in ToldCalls
  <2> DEFINE K == {"tlstatus"}
             A == {Nothing}
             R == Tellings
  <2>1. m \in CallsOf(K, A, R) /\ CallsOf(K, A, R) \subseteq TimelineCalls
    BY <1>2, <1>5 DEF ToldCalls
  <2>2. m.kind \in K
    BY <1>3, <2>1
  <2>3. m.kind = "tlstatus" /\ m.kind \notin NoteKinds
    BY <2>2 DEF NoteKinds
  <2>4. R = Tellings
    OBVIOUS
  <2> HIDE DEF K, A, R
  <2> QED
    BY <2>1, <2>3, <2>4
<1>6. CASE m \in TlRowsCalls
  BY <1>2, <1>3, <1>6 DEF TlRowsCalls, NoteKinds
<1>7. CASE m \in ButtonCalls
  BY <1>2, <1>3, <1>7 DEF ButtonCalls, NoteKinds
<1>8. CASE m \in NoteCalls
  BY <1>2, <1>3, <1>8 DEF NoteCalls, NoteKinds
<1> QED
  BY <1>1, <1>4, <1>5, <1>6, <1>7, <1>8

\* Their arguments and results.
LEMMA TimelineArgs ==
  ASSUME NEW k \in TimelineCalls
  PROVE  /\ k.kind = "list" => /\ k.arg \in [row : {"page"}, val : {"first", "again"}]
                               /\ k.st = "answered" /\ k.ok => k.res \in NoteLists
         /\ k.kind = "tlstatus" /\ k.st = "answered" /\ k.ok => k.res \in Tellings
         /\ k.kind = "tlrows" => k.arg \in RowKeys /\ (k.st = "answered" /\ k.ok => k.res \in 0..MaxBuild)
         /\ k.kind \in NoteKinds => k.arg \in Notings /\ (k.st = "answered" /\ k.ok => k.res \in Nat)
<1>1. \A K, A, R : \A n \in CallsOf(K, A, R) : n.arg \in A /\ (n.st = "answered" /\ n.ok => n.res \in R)
  BY DEF CallsOf
<1>2. k.kind = "list" => k \in ListCalls
  BY TimelineCallIs
<1>3. k.kind = "tlstatus" => k \in ToldCalls
  BY TimelineCallIs
<1>4. k.kind = "tlrows" => k \in TlRowsCalls
  BY TimelineCallIs
<1>5. k.kind \in NoteKinds => k \in NoteCalls
  BY TimelineCallIs
<1>6. k \in ListCalls => /\ k.arg \in [row : {"page"}, val : {"first", "again"}]
                         /\ k.st = "answered" /\ k.ok => k.res \in NoteLists
  BY <1>1 DEF ListCalls
<1>7. k \in ToldCalls /\ k.st = "answered" /\ k.ok => k.res \in Tellings
  BY <1>1 DEF ToldCalls
<1>8. k \in TlRowsCalls => k.arg \in RowKeys /\ (k.st = "answered" /\ k.ok => k.res \in 0..MaxBuild)
  BY <1>1 DEF TlRowsCalls
<1>9. k \in NoteCalls => k.arg \in Notings /\ (k.st = "answered" /\ k.ok => k.res \in Nat)
  BY <1>1 DEF NoteCalls
<1> QED
  BY <1>2, <1>3, <1>4, <1>5, <1>6, <1>7, <1>8, <1>9

\* What TimelineInv says.
LEMMA TimelineParts ==
  ASSUME TimelineInv
  PROVE  /\ mounted \in BOOLEAN /\ db \in TimelineDbs /\ q \in TimelineQs /\ f \in TimelineFs /\ net \in [Slot -> TimelineCalls]
         /\ Builds(f, db, net) /\ Listed(q, db, net) /\ Noted(mounted, f, q, db, net) /\ Fresh(f, q, net)
BY DEF TimelineInv, TimelineOK

\* Numbers.
LEMMA TimelineNumbers ==
  /\ MaxBuild \in Nat /\ MaxBuild >= 1
  /\ \A d \in TimelineDbs : d.ver \in Nat /\ d.build \in Nat /\ d.build <= MaxBuild
  /\ \A e \in TimelineQs : e.ver \in Nat
  /\ \A g \in TimelineFs : g.acked \in Nat /\ g.build \in Nat /\ g.build \in 1..MaxBuild
  /\ \A k \in RowKeys : k.build \in 1..MaxBuild
<1>1. MaxBuild \in Nat /\ MaxBuild >= 1
  BY FrameAssumption DEF MaxBuild
<1> HIDE DEF MaxBuild
<1>2. \A d \in TimelineDbs : d.ver \in Nat /\ d.build \in 0..MaxBuild
  BY DEF TimelineDbs
<1>3. \A e \in TimelineQs : e.ver \in Nat
  BY DEF TimelineQs
<1>4. \A g \in TimelineFs : g.acked \in Nat /\ g.build \in 1..MaxBuild
  BY DEF TimelineFs
<1>5. \A k \in RowKeys : k.build \in 1..MaxBuild
  BY DEF RowKeys
<1> QED
  BY <1>1, <1>2, <1>3, <1>4, <1>5

\* The server goes on.
Later(d, x) ==
  /\ x \in TimelineDbs /\ d.ver <= x.ver /\ d.build <= x.build
  /\ (x.st = "DONE" => x.build >= 1) /\ (x.st = "BUILDING" => x.build < MaxBuild)

\* The invariant holds of a server that has gone on.
LEMMA TimelineGrows ==
  ASSUME NEW on, NEW g, NEW e, NEW d, NEW n, TimelineOK(on, g, e, d, n), NEW x, Later(d, x)
  PROVE  TimelineOK(on, g, e, x, n)
<1>1. /\ d \in TimelineDbs /\ e \in TimelineQs /\ g \in TimelineFs /\ n \in [Slot -> TimelineCalls]
      /\ Builds(g, d, n) /\ Listed(e, d, n) /\ Noted(on, g, e, d, n)
  BY DEF TimelineOK
<1>2. x \in TimelineDbs /\ d.ver \in Nat /\ x.ver \in Nat /\ d.ver <= x.ver /\ d.build \in Nat /\ x.build \in Nat /\ d.build <= x.build
  BY <1>1, TimelineNumbers DEF Later
<1>3. Builds(g, x, n)
  <2>1. g.build \in Nat
    BY <1>1, TimelineNumbers
  <2>2. ASSUME NEW c \in Slot, n[c].kind = "tlstatus", n[c].st = "answered", n[c].ok
        PROVE  n[c].res.build <= x.build /\ (n[c].res.st = "DONE" => n[c].res.build >= 1)
    <3>1. n[c].res.build <= d.build /\ (n[c].res.st = "DONE" => n[c].res.build >= 1)
      BY <1>1, <2>2 DEF Builds
    <3>2. n[c].res \in Tellings
      BY <1>1, <2>2, TimelineArgs
    <3>3. n[c].res.build \in 0..MaxBuild
      BY <3>2 DEF Tellings
    <3> QED
      BY <1>2, <3>1, <3>3, TimelineNumbers
  <2>3. ASSUME NEW c \in Slot, n[c].kind = "tlrows" PROVE n[c].arg.build <= x.build
    <3>1. n[c].arg.build <= d.build
      BY <1>1, <2>3 DEF Builds
    <3>2. n[c].arg.build \in 1..MaxBuild
      BY <1>1, <2>3, TimelineArgs, TimelineNumbers
    <3> QED
      BY <1>2, <3>1, <3>2, TimelineNumbers
  <2>4. g.told = "DONE" => g.build <= x.build
    BY <1>1, <1>2, <2>1 DEF Builds
  <2> QED
    BY <1>1, <2>2, <2>3, <2>4 DEF Builds, Later
<1>4. Listed(e, x, n)
  <2>1. e.ver \in Nat
    BY <1>1, TimelineNumbers
  <2>2. ASSUME NEW c \in Slot, n[c].kind = "list", n[c].st = "answered", n[c].ok PROVE n[c].res.ver <= x.ver
    <3>1. n[c].res.ver <= d.ver
      BY <1>1, <2>2 DEF Listed
    <3>2. n[c].res.ver \in Nat
      BY <1>1, <2>2, TimelineArgs DEF NoteLists
    <3> QED
      BY <1>2, <3>1, <3>2
  <2> QED
    BY <1>1, <1>2, <2>1, <2>2 DEF Listed
<1>5. Noted(on, g, e, x, n)
  <2>1. g.acked \in Nat
    BY <1>1, TimelineNumbers
  <2>2. ASSUME NEW c \in Slot, n[c].kind \in NoteKinds, n[c].st = "answered", n[c].ok PROVE n[c].res <= x.ver
    <3>1. n[c].res <= d.ver
      BY <1>1, <2>2 DEF Noted
    <3>2. n[c].res \in Nat
      BY <1>1, <2>2, TimelineArgs
    <3> QED
      BY <1>2, <3>1, <3>2
  <2> QED
    BY <1>1, <1>2, <2>1, <2>2 DEF Noted
<1> QED
  BY <1>2, <1>3, <1>4, <1>5 DEF TimelineOK

\* The state of this page.
LEMMA TimelineIs ==
  ASSUME NEW on, NEW g, NEW e, NEW d, NEW n
  PROVE  TimelineOK(on, g, e, d, n) <=>
           /\ on \in BOOLEAN /\ d \in TimelineDbs /\ e \in TimelineQs /\ g \in TimelineFs /\ n \in [Slot -> TimelineCalls]
           /\ Builds(g, d, n) /\ Listed(e, d, n) /\ Noted(on, g, e, d, n) /\ Fresh(g, e, n)
BY DEF TimelineOK

\* One call changes, and stays what it was.
LEMMA TimelineCallStep ==
  ASSUME NEW on, NEW g, NEW e, NEW d, NEW n, TimelineOK(on, g, e, d, n),
         NEW c \in Slot, NEW k \in TimelineCalls, k.kind = n[c].kind, k.live = n[c].live,
         k.kind = "tlrows" => k.arg = n[c].arg,
         k.st = "answered" /\ k.ok =>
           /\ k.kind = "tlstatus" => k.res.build <= d.build /\ (k.res.st = "DONE" => k.res.build >= 1)
           /\ k.kind = "tlrows" => k.res >= k.arg.build
           /\ k.kind = "list" => k.res.ver = d.ver
           /\ k.kind \in NoteKinds => k.res <= d.ver
  PROVE  TimelineOK(on, g, e, d, [n EXCEPT ![c] = k])
<1> DEFINE m == [n EXCEPT ![c] = k]
<1>1. /\ on \in BOOLEAN /\ d \in TimelineDbs /\ e \in TimelineQs /\ g \in TimelineFs /\ n \in [Slot -> TimelineCalls]
      /\ Builds(g, d, n) /\ Listed(e, d, n) /\ Noted(on, g, e, d, n) /\ Fresh(g, e, n)
  BY TimelineIs
<1>2. m \in [Slot -> TimelineCalls] /\ m[c] = k /\ \A b \in Slot : b # c => m[b] = n[b]
  BY <1>1
<1> HIDE DEF m
<1>3. \A b \in Slot : m[b].kind = n[b].kind /\ m[b].live = n[b].live /\ (n[b].kind = "tlrows" => m[b].arg = n[b].arg)
  BY <1>2
<1>4. Builds(g, d, m)
  <2>1. ASSUME NEW b \in Slot, m[b].kind = "tlstatus", m[b].st = "answered", m[b].ok
        PROVE  m[b].res.build <= d.build /\ (m[b].res.st = "DONE" => m[b].res.build >= 1)
    <3>1. CASE b = c
      BY <1>2, <2>1, <3>1
    <3>2. CASE b # c
      BY <1>1, <1>2, <2>1, <3>2 DEF Builds
    <3> QED
      BY <3>1, <3>2
  <2>2. ASSUME NEW b \in Slot, m[b].kind = "tlrows"
        PROVE  m[b].arg.build <= d.build /\ (m[b].st = "answered" /\ m[b].ok => m[b].res >= m[b].arg.build)
    <3>1. CASE b = c
      <4>1. n[c].arg.build <= d.build
        BY <1>1, <1>2, <2>2, <3>1 DEF Builds
      <4> QED
        BY <1>2, <2>2, <3>1, <4>1
    <3>2. CASE b # c
      BY <1>1, <1>2, <2>2, <3>2 DEF Builds
    <3> QED
      BY <3>1, <3>2
  <2> QED
    BY <1>1, <2>1, <2>2 DEF Builds
<1>5. g.acked <= d.ver /\ e.ver <= d.ver /\ d.ver \in Nat /\ e.ver \in Nat /\ g.acked \in Nat
  BY <1>1, TimelineNumbers DEF Listed, Noted
<1>6. Listed(e, d, m)
  <2>1. ASSUME NEW b \in Slot, m[b].kind = "list", m[b].st = "answered", m[b].ok
        PROVE  e.ver <= m[b].res.ver /\ m[b].res.ver <= d.ver
    <3>1. CASE b = c
      BY <1>2, <1>5, <2>1, <3>1
    <3>2. CASE b # c
      BY <1>1, <1>2, <2>1, <3>2 DEF Listed
    <3> QED
      BY <3>1, <3>2
  <2>2. \A b, a \in Slot : m[b].kind = "list" /\ m[a].kind = "list" => a = b
    BY <1>1, <1>3 DEF Listed
  <2> QED
    BY <1>5, <2>1, <2>2 DEF Listed
<1>7. Noted(on, g, e, d, m)
  <2>1. ASSUME NEW b \in Slot, m[b].kind \in NoteKinds, m[b].st = "answered", m[b].ok
        PROVE  m[b].res <= d.ver
    <3>1. CASE b = c
      BY <1>2, <2>1, <3>1
    <3>2. CASE b # c
      BY <1>1, <1>2, <2>1, <3>2 DEF Noted
    <3> QED
      BY <3>1, <3>2
  <2>2. \A b \in Slot : m[b].kind \in NoteKinds => e.have /\ (m[b].live => on = TRUE)
    BY <1>1, <1>3 DEF Noted
  <2>3. \A b \in Slot : m[b].kind = "send" /\ m[b].live =>
          g.importing /\ \A a \in Slot : m[a].kind = "send" /\ m[a].live => a = b
    BY <1>1, <1>3 DEF Noted
  <2> QED
    BY <1>5, <2>1, <2>2, <2>3 DEF Noted
<1>8. Fresh(g, e, m)
  <2> SUFFICES ASSUME ~g.importing
               PROVE  /\ g.acked <= e.ver \/ e.err \/ Flying(m, "list")
                      /\ \A b \in Slot : m[b].kind = "list" /\ m[b].st = "answered" /\ m[b].ok => g.acked <= m[b].res.ver
    BY DEF Fresh
  <2>1. g.acked <= e.ver \/ e.err \/ Flying(n, "list")
    BY <1>1 DEF Fresh
  <2>2. Flying(n, "list") => Flying(m, "list")
    BY <1>3 DEF Flying
  <2>3. ASSUME NEW b \in Slot, m[b].kind = "list", m[b].st = "answered", m[b].ok PROVE g.acked <= m[b].res.ver
    <3>1. CASE b = c
      BY <1>2, <1>5, <2>3, <3>1
    <3>2. CASE b # c
      BY <1>1, <1>2, <2>3, <3>2 DEF Fresh
    <3> QED
      BY <3>1, <3>2
  <2> QED
    BY <2>1, <2>2, <2>3
<1>9. TimelineOK(on, g, e, d, m)
  BY <1>1, <1>2, <1>4, <1>6, <1>7, <1>8, TimelineIs
<1> QED
  BY <1>9 DEF m

\* A slot is emptied; fetches of the annotations stay.
LEMMA TimelineDrop ==
  ASSUME NEW on, NEW g, NEW e, NEW d, NEW n, TimelineOK(on, g, e, d, n),
         NEW m \in [Slot -> TimelineCalls], \A c \in Slot : m[c] = n[c] \/ (m[c] = NoCall /\ n[c].kind # "list")
  PROVE  TimelineOK(on, g, e, d, m)
<1>1. /\ on \in BOOLEAN /\ d \in TimelineDbs /\ e \in TimelineQs /\ g \in TimelineFs /\ n \in [Slot -> TimelineCalls]
      /\ Builds(g, d, n) /\ Listed(e, d, n) /\ Noted(on, g, e, d, n) /\ Fresh(g, e, n)
  BY TimelineIs
<1>2. NoCall.kind = "none"
  BY NoCallIs
<1>3. \A c \in Slot : m[c].kind # "none" => m[c] = n[c]
  BY <1>2
<1>4. Builds(g, d, m)
  BY <1>1, <1>3 DEF Builds
<1>5. Listed(e, d, m)
  BY <1>1, <1>3 DEF Listed
<1>6. Noted(on, g, e, d, m)
  <2>1. \A c \in Slot : m[c].kind \in NoteKinds => m[c] = n[c]
    BY <1>3 DEF NoteKinds
  <2> QED
    BY <1>1, <1>3, <2>1 DEF Noted
<1>7. Fresh(g, e, m)
  <2>1. Flying(n, "list") => Flying(m, "list")
    BY DEF Flying
  <2> QED
    BY <1>1, <1>3, <2>1 DEF Fresh
<1> QED
  BY <1>1, <1>4, <1>5, <1>6, <1>7, TimelineIs

\* The case of one slot.
LEMMA TimelineWithout ==
  ASSUME NEW on, NEW g, NEW e, NEW d, NEW n, TimelineOK(on, g, e, d, n), NEW c \in Slot
  PROVE  /\ Without(n, c) \in [Slot -> TimelineCalls] /\ c \in FreeIn(Without(n, c)) /\ FreeIn(Without(n, c)) # {}
         /\ Without(n, c)[c] = NoCall /\ \A b \in Slot : b # c => Without(n, c)[b] = n[b]
         /\ n[c].kind # "list" => TimelineOK(on, g, e, d, Without(n, c))
<1>1. n \in [Slot -> TimelineCalls] /\ NoCall \in TimelineCalls
  BY TimelineIs, TimelineCallIs DEF Calling
<1>2. /\ Without(n, c) \in [Slot -> TimelineCalls] /\ Without(n, c)[c] = NoCall
      /\ (\A b \in Slot : b # c => Without(n, c)[b] = n[b]) /\ c \in FreeIn(Without(n, c))
  BY <1>1, Leaving
<1> DEFINE m == Without(n, c)
<1> HIDE DEF m
<1>3. m \in [Slot -> TimelineCalls] /\ m[c] = NoCall /\ \A b \in Slot : b # c => m[b] = n[b]
  BY <1>2 DEF m
<1>4. n[c].kind # "list" => TimelineOK(on, g, e, d, m)
  BY <1>3, TimelineDrop
<1> QED
  BY <1>2, <1>4 DEF m

\* The slot a new call takes.
LEMMA FreeSlot ==
  ASSUME NEW n, FreeIn(n) # {}
  PROVE  Least(FreeIn(n)) \in Slot /\ n[Least(FreeIn(n))].st = "idle"
<1> DEFINE F == FreeIn(n)
<1>1. F \subseteq Nat
  <2> DEFINE last == Cardinality(Slot)
  <2>1. Slot = 1..last /\ last \in Nat
    BY CallsAssumption, FS_CardinalityType
  <2> HIDE DEF last
  <2> QED
    BY <2>1 DEF FreeIn
<1> HIDE DEF F
<1>2. \E x \in F : \A y \in F : x <= y
  BY <1>1, LeastNatural DEF F
<1>3. Least(F) \in F
  BY <1>2 DEF Least
<1> QED
  BY <1>3 DEF F, FreeIn

\* A new call in a free slot.
LEMMA TimelinePut ==
  ASSUME NEW on, NEW g, NEW e, NEW d, NEW n, TimelineOK(on, g, e, d, n),
         NEW s \in Slot, n[s].st = "idle", NEW x \in TimelineCalls, x.st = "sent",
         x.kind = "tlrows" => x.arg.build <= d.build,
         x.kind = "list" => ~Flying(n, "list"),
         x.kind \in NoteKinds => e.have /\ (x.live => on = TRUE),
         x.kind = "send" /\ x.live => g.importing /\ ~Held(n, "send")
  PROVE  TimelineOK(on, g, e, d, [n EXCEPT ![s] = x])
<1> DEFINE m == [n EXCEPT ![s] = x]
<1>1. /\ on \in BOOLEAN /\ d \in TimelineDbs /\ e \in TimelineQs /\ g \in TimelineFs /\ n \in [Slot -> TimelineCalls]
      /\ Builds(g, d, n) /\ Listed(e, d, n) /\ Noted(on, g, e, d, n) /\ Fresh(g, e, n)
  BY TimelineIs
<1>2. m \in [Slot -> TimelineCalls] /\ m[s] = x /\ \A b \in Slot : b # s => m[b] = n[b]
  BY <1>1
<1> HIDE DEF m
<1>3. n[s].kind = "none"
  BY <1>1, TimelineCallIs
<1>4. Builds(g, d, m)
  <2>1. ASSUME NEW b \in Slot, m[b].kind = "tlstatus", m[b].st = "answered", m[b].ok
        PROVE  m[b].res.build <= d.build /\ (m[b].res.st = "DONE" => m[b].res.build >= 1)
    BY <1>1, <1>2, <2>1 DEF Builds
  <2>2. ASSUME NEW b \in Slot, m[b].kind = "tlrows"
        PROVE  m[b].arg.build <= d.build /\ (m[b].st = "answered" /\ m[b].ok => m[b].res >= m[b].arg.build)
    BY <1>1, <1>2, <2>2 DEF Builds
  <2> QED
    BY <1>1, <2>1, <2>2 DEF Builds
<1>5. Listed(e, d, m)
  <2>1. ASSUME NEW b \in Slot, m[b].kind = "list", m[b].st = "answered", m[b].ok
        PROVE  e.ver <= m[b].res.ver /\ m[b].res.ver <= d.ver
    BY <1>1, <1>2, <2>1 DEF Listed
  <2>2. ASSUME NEW b \in Slot, NEW a \in Slot, m[b].kind = "list", m[a].kind = "list" PROVE a = b
    <3>1. CASE x.kind = "list"
      BY <1>2, <2>2, <3>1 DEF Flying
    <3>2. CASE x.kind # "list"
      BY <1>1, <1>2, <2>2, <3>2 DEF Listed
    <3> QED
      BY <3>1, <3>2
  <2> QED
    BY <1>1, <2>1, <2>2 DEF Listed
<1>6. Noted(on, g, e, d, m)
  <2>1. ASSUME NEW b \in Slot, m[b].kind \in NoteKinds
        PROVE  e.have /\ (m[b].live => on = TRUE) /\ (m[b].st = "answered" /\ m[b].ok => m[b].res <= d.ver)
    <3>1. CASE b = s
      BY <1>2, <2>1, <3>1
    <3>2. CASE b # s
      BY <1>1, <1>2, <2>1, <3>2 DEF Noted
    <3> QED
      BY <3>1, <3>2
  <2>2. ASSUME NEW b \in Slot, m[b].kind = "send", m[b].live
        PROVE  g.importing /\ \A a \in Slot : m[a].kind = "send" /\ m[a].live => a = b
    <3>1. CASE x.kind = "send" /\ x.live
      BY <1>2, <2>2, <3>1 DEF Held
    <3>2. CASE ~(x.kind = "send" /\ x.live)
      <4>1. n[b].kind = "send" /\ n[b].live /\ \A a \in Slot : m[a].kind = "send" /\ m[a].live => m[a] = n[a]
        BY <1>2, <2>2, <3>2
      <4> QED
        BY <1>1, <4>1 DEF Noted
    <3> QED
      BY <3>1, <3>2
  <2> QED
    BY <1>1, <2>1, <2>2 DEF Noted
<1>7. Fresh(g, e, m)
  <2>1. Flying(n, "list") => Flying(m, "list")
    BY <1>2, <1>3 DEF Flying
  <2>2. ASSUME ~g.importing, NEW b \in Slot, m[b].kind = "list", m[b].st = "answered", m[b].ok PROVE g.acked <= m[b].res.ver
    BY <1>1, <1>2, <2>2 DEF Fresh
  <2> QED
    BY <1>1, <2>1, <2>2 DEF Fresh
<1>8. TimelineOK(on, g, e, d, m)
  BY <1>1, <1>2, <1>4, <1>5, <1>6, <1>7, TimelineIs
<1> QED
  BY <1>8 DEF m

\* The same for With.
LEMMA TimelineAdds ==
  ASSUME NEW on, NEW g, NEW e, NEW d, NEW n, TimelineOK(on, g, e, d, n), FreeIn(n) # {},
         NEW k, NEW a, Sent(k, a) \in TimelineCalls,
         k = "tlrows" => a.build <= d.build,
         k = "list" => ~Flying(n, "list"),
         k \in NoteKinds => e.have /\ on = TRUE,
         k = "send" => g.importing /\ ~Held(n, "send")
  PROVE  TimelineOK(on, g, e, d, Adds(n, k, a))
<1> DEFINE s == Least(FreeIn(n))
           x == Sent(k, a)
<1>1. s \in Slot /\ n[s].st = "idle"
  BY FreeSlot
<1>2. x.st = "sent" /\ x.kind = k /\ x.arg = a
  BY HeldCallIs
<1>3. Adds(n, k, a) = [n EXCEPT ![s] = x]
  BY DEF Adds, With, Sent
<1> HIDE DEF s, x
<1>4. TimelineOK(on, g, e, d, [n EXCEPT ![s] = x])
  BY <1>1, <1>2, TimelinePut DEF x
<1> QED
  BY <1>3, <1>4

\* The calls this page makes.
LEMMA TimelineSends ==
  /\ Sent("tlstatus", Nothing) \in TimelineCalls /\ Sent("build", Nothing) \in TimelineCalls
  /\ Sent("export", Nothing) \in TimelineCalls
  /\ \A k \in RowKeys : Sent("tlrows", k) \in TimelineCalls
  /\ \A k \in NoteKinds, r \in Row, v \in {"on", "off"}, S \in SUBSET Row, l \in BOOLEAN :
       Sent(k, Note(r, v, S)) \in TimelineCalls /\ NewCall(k, Note(r, v, S), l) \in TimelineCalls
  /\ \A v \in {"first", "again"}, l \in BOOLEAN : NewCall("list", Arg("page", v), l) \in ListCalls
<1>1. \A k, a, K, A, R : k \in K /\ a \in A => Sent(k, a) \in CallsOf(K, A, R)
  BY HeldCallIs
<1>2. Sent("tlstatus", Nothing) \in ToldCalls
  BY <1>1 DEF ToldCalls
<1>3. Sent("build", Nothing) \in ButtonCalls /\ Sent("export", Nothing) \in ButtonCalls
  BY <1>1 DEF ButtonCalls
<1>4. \A k \in RowKeys : Sent("tlrows", k) \in TlRowsCalls
  BY <1>1 DEF TlRowsCalls
<1>5. ASSUME NEW k \in NoteKinds, NEW r \in Row, NEW v \in {"on", "off"}, NEW S \in SUBSET Row, NEW l \in BOOLEAN
      PROVE  Sent(k, Note(r, v, S)) \in NoteCalls /\ NewCall(k, Note(r, v, S), l) \in NoteCalls
  <2> DEFINE a == Note(r, v, S)
  <2>1. a \in Notings
    BY DEF Note, Notings
  <2>2. NoteCalls = CallsOf(NoteKinds, Notings, Nat)
    BY DEF NoteCalls
  <2> HIDE DEF a
  <2>3. Sent(k, a) \in NoteCalls
    BY <1>1, <2>1, <2>2
  <2>4. NewCall(k, a, l) \in NoteCalls
    BY <2>1, <2>2, NewCallIs
  <2> QED
    BY <2>3, <2>4 DEF a
<1>6. ASSUME NEW v \in {"first", "again"}, NEW l \in BOOLEAN PROVE NewCall("list", Arg("page", v), l) \in ListCalls
  <2> DEFINE a == Arg("page", v)
             A == [row : {"page"}, val : {"first", "again"}]
             K == {"list"}
             R == NoteLists
  <2>1. a \in A /\ "list" \in K
    BY DEF Arg
  <2>2. ListCalls = CallsOf(K, A, R)
    BY DEF ListCalls
  <2> HIDE DEF a, A, K, R
  <2>3. NewCall("list", a, l) \in CallsOf(K, A, R)
    BY <2>1, NewCallIs
  <2> QED
    BY <2>2, <2>3 DEF a
<1> QED
  BY <1>2, <1>3, <1>4, <1>5, <1>6 DEF TimelineCalls

\* A form of the page: what it names and what it shows.
Named(g, d) ==
  /\ g.told = "DONE" => g.build <= d.build
  /\ \A k \in RowKeys : g.rows[k] = 0 \/ g.rows[k] >= k.build

\* The page goes on to another form, and asks for nothing.
LEMMA TimelineForm ==
  ASSUME NEW on, NEW g, NEW e, NEW d, NEW n, TimelineOK(on, g, e, d, n),
         NEW h \in TimelineFs, Named(h, d), h.acked = g.acked, h.importing = g.importing
  PROVE  TimelineOK(on, h, e, d, n)
<1>1. /\ on \in BOOLEAN /\ d \in TimelineDbs /\ e \in TimelineQs /\ g \in TimelineFs /\ n \in [Slot -> TimelineCalls]
      /\ Builds(g, d, n) /\ Listed(e, d, n) /\ Noted(on, g, e, d, n) /\ Fresh(g, e, n)
  BY TimelineIs
<1>2. Builds(h, d, n)
  BY <1>1 DEF Builds, Named
<1>3. Noted(on, h, e, d, n)
  BY <1>1 DEF Noted
<1>4. Fresh(h, e, n)
  BY <1>1 DEF Fresh
<1> QED
  BY <1>1, <1>2, <1>3, <1>4, TimelineIs

\* What the present form names.
LEMMA TimelineNamed ==
  \A on, g, e, d, n : TimelineOK(on, g, e, d, n) => Named(g, d) /\ g \in TimelineFs /\ d \in TimelineDbs
BY DEF TimelineOK, Builds, Named

\* Another form, while the annotations are fetched anew.
LEMMA TimelineRelist ==
  ASSUME NEW on, NEW g, NEW e, NEW d, NEW n, TimelineOK(on, g, e, d, n),
         NEW u \in [Slot -> TimelineCalls], \A c \in Slot : u[c] = IF n[c].kind = "list" THEN NoCall ELSE n[c],
         NEW s \in Slot, u[s].st = "idle", NEW x \in TimelineCalls, x.st = "sent", x.kind = "list",
         NEW h \in TimelineFs, Named(h, d), h.acked <= d.ver, h.importing \/ ~Held(n, "send")
  PROVE  TimelineOK(on, h, e, d, [u EXCEPT ![s] = x])
<1> DEFINE m == [u EXCEPT ![s] = x]
<1>1. /\ on \in BOOLEAN /\ d \in TimelineDbs /\ e \in TimelineQs /\ g \in TimelineFs /\ n \in [Slot -> TimelineCalls]
      /\ Builds(g, d, n) /\ Listed(e, d, n) /\ Noted(on, g, e, d, n)
  BY TimelineIs
<1>2. NoCall \in TimelineCalls /\ NoCall.kind = "none" /\ NoCall.st = "idle"
  BY TimelineCallIs, NoCallIs DEF Calling
<1>3. m \in [Slot -> TimelineCalls] /\ m[s] = x /\ \A c \in Slot : c # s => m[c] = u[c]
  OBVIOUS
<1> HIDE DEF m
<1>4. \A c \in Slot : m[c].kind \notin {"none", "list"} => m[c] = n[c]
  BY <1>2, <1>3
<1>5. \A c \in Slot : m[c].kind = "list" => c = s
  BY <1>2, <1>3
<1>6. Builds(h, d, m)
  <2>1. \A c \in Slot : m[c].kind \in {"tlstatus", "tlrows"} => m[c] = n[c]
    BY <1>4
  <2> QED
    BY <1>1, <2>1 DEF Builds, Named
<1>7. Listed(e, d, m)
  BY <1>1, <1>3, <1>5 DEF Listed
<1>8. Noted(on, h, e, d, m)
  <2>1. \A c \in Slot : m[c].kind \in NoteKinds => m[c] = n[c]
    BY <1>4 DEF NoteKinds
  <2>2. \A c \in Slot : m[c].kind = "send" => m[c] = n[c]
    BY <1>4
  <2>3. ASSUME NEW b \in Slot, m[b].kind = "send", m[b].live
        PROVE  h.importing /\ \A c \in Slot : m[c].kind = "send" /\ m[c].live => c = b
    <3>1. n[b].kind = "send" /\ n[b].live
      BY <2>2, <2>3
    <3> QED
      BY <1>1, <2>2, <3>1 DEF Noted, Held
  <2> QED
    BY <1>1, <2>1, <2>3 DEF Noted
<1>9. Fresh(h, e, m)
  <2>1. s \in Slot /\ m[s].kind = "list"
    BY <1>3
  <2>2. Flying(m, "list")
    BY <2>1 DEF Flying
  <2>3. \A c \in Slot : m[c].kind = "list" => m[c].st # "answered"
    BY <1>3, <1>5
  <2> QED
    BY <2>2, <2>3 DEF Fresh
<1>10. TimelineOK(on, h, e, d, m)
  BY <1>1, <1>3, <1>6, <1>7, <1>8, <1>9, TimelineIs
<1> QED
  BY <1>10 DEF m

\* A fetch of the annotations, by its page.
LEMMA ListCall ==
  /\ Sent("list", Arg("page", "first")) \in TimelineCalls
  /\ \A n : Fetch(n, "page") = [n EXCEPT ![Least(FreeIn(n))] = Sent("list", Arg("page", "first"))]
<1> DEFINE yes == TRUE
           v == "first"
<1>1. yes \in BOOLEAN /\ v \in {"first", "again"}
  OBVIOUS
<1>2. Sent("list", Arg("page", "first")) = NewCall("list", Arg("page", v), yes)
  BY DEF Sent
<1> HIDE DEF yes, v
<1>3. NewCall("list", Arg("page", v), yes) \in TimelineCalls
  BY <1>1, TimelineSends DEF TimelineCalls
<1>4. \A n : Fetch(n, "page") = [n EXCEPT ![Least(FreeIn(n))] = Sent("list", Arg("page", "first"))]
  BY DEF Fetch, With, Sent
<1> QED
  BY <1>2, <1>3, <1>4

\* The invalidation of the annotations, which replaces a fetch in flight.
LEMMA TimelineRefetch ==
  ASSUME NEW on, NEW g, NEW e, NEW d, NEW n, TimelineOK(on, g, e, d, n), FreeIn(n) # {},
         NEW h \in TimelineFs, Named(h, d), h.acked <= d.ver, h.importing \/ ~Held(n, "send")
  PROVE  TimelineOK(on, h, e, d, Fetch(Unlisted(n), "page"))
<1> DEFINE u == Unlisted(n)
           s == Least(FreeIn(u))
           x == Sent("list", Arg("page", "first"))
<1>1. n \in [Slot -> TimelineCalls]
  BY TimelineIs
<1>2. NoCall \in TimelineCalls /\ NoCall.st = "idle"
  BY TimelineCallIs, NoCallIs DEF Calling
<1>3. \A c \in Slot : n[c].kind = "list" <=> IsList(n[c])
  BY <1>1, TimelineCallIs DEF IsList
<1>4. u \in [Slot -> TimelineCalls] /\ \A c \in Slot : u[c] = IF n[c].kind = "list" THEN NoCall ELSE n[c]
  BY <1>1, <1>2, <1>3 DEF Unlisted
<1>5. Fetch(Unlisted(n), "page") = [u EXCEPT ![s] = x]
  BY ListCall
<1> HIDE DEF u
<1>6. FreeIn(u) # {}
  BY <1>2, <1>4 DEF FreeIn
<1>7. s \in Slot /\ u[s].st = "idle"
  BY <1>6, FreeSlot
<1>8. x \in TimelineCalls /\ x.st = "sent" /\ x.kind = "list"
  BY ListCall, HeldCallIs
<1> HIDE DEF s, x
<1>9. TimelineOK(on, h, e, d, [u EXCEPT ![s] = x])
  BY <1>4, <1>7, <1>8, TimelineRelist
<1> QED
  BY <1>5, <1>9

\* A step of this page.
LEMMA TimelineStep ==
  ASSUME TimelineOK(mounted', f', q', db', net')
  PROVE  TimelineInv'
BY DEF TimelineInv

\* The network, on this page.
LEMMA TimelineNetKeeps == \A c \in Slot : TimelineInv /\ (Retries(c) \/ Breaks(c) \/ Unserved(c)) => TimelineInv'
<1> SUFFICES ASSUME NEW c \in Slot, TimelineInv, Retries(c) \/ Breaks(c) \/ Unserved(c) PROVE TimelineInv'
  OBVIOUS
<1>1. net \in [Slot -> TimelineCalls] /\ TimelineOK(mounted, f, q, db, net)
  BY TimelineParts DEF TimelineInv
<1>2. PICK k : Moved(net[c], k) /\ net' = [net EXCEPT ![c] = k]
  BY <1>1, OneSlot
<1>3. net[c].st # "idle" /\ UNCHANGED <<page, mounted, f, q, db>>
  BY <1>1, OneSlot
<1> DEFINE m == net[c]
<1>4. m \in TimelineCalls /\ m.kind # "none"
  BY <1>1, <1>3, TimelineCallIs
<1> HIDE DEF m
<1>5. k \in TimelineCalls /\ k.kind = m.kind /\ k.arg = m.arg /\ k.live = m.live /\ ~(k.st = "answered" /\ k.ok)
  <2>1. PICK K, A, R : m \in CallsOf(K, A, R) /\ CallsOf(K, A, R) \subseteq TimelineCalls
    BY <1>4, TimelineCallOf
  <2>2. Moved(m, k)
    BY <1>2 DEF m
  <2>3. k \in CallsOf(K, A, R) /\ k.kind = m.kind /\ k.arg = m.arg /\ k.live = m.live /\ ~(k.st = "answered" /\ k.ok)
    BY <2>1, <2>2, MovedCall
  <2> QED
    BY <2>1, <2>3
<1>6. TimelineOK(mounted, f, q, db, net')
  BY <1>1, <1>2, <1>5, TimelineCallStep DEF m
<1> QED
  BY <1>3, <1>6, TimelineStep

\* The server is away for the annotations.
LEMMA TimelineOutage == \A c \in Slot : TimelineInv /\ Outage(c) => TimelineInv'
<1> SUFFICES ASSUME NEW c \in Slot, TimelineInv, Outage(c) PROVE TimelineInv'
  OBVIOUS
<1>1. net \in [Slot -> TimelineCalls] /\ TimelineOK(mounted, f, q, db, net)
  BY TimelineParts DEF TimelineInv
<1> DEFINE m == net[c]
           a == [m.arg EXCEPT !.val = "again"]
           k == [m EXCEPT !.st = "broken", !.arg = a]
           A == [row : {"page"}, val : {"first", "again"}]
           R == NoteLists
<1>2. m.kind = "list" /\ UNCHANGED <<mounted, f, q, db>> /\ net' = [net EXCEPT ![c] = k]
  BY <1>1 DEF Outage, Asked
<1>3. m \in ListCalls
  BY <1>1, <1>2, TimelineCallIs
<1> HIDE DEF m
<1>4. m \in [st : {"sent", "answered", "broken"}, kind : {"list"}, arg : A, try : 1..2, ok : BOOLEAN,
             res : R \cup {Nothing, "absent"}, live : BOOLEAN]
  BY <1>3 DEF ListCalls, CallsOf
<1>5. a \in A
  BY <1>4
<1> HIDE DEF a, A, R
<1>6. /\ k \in [st : {"sent", "answered", "broken"}, kind : {"list"}, arg : A, try : 1..2, ok : BOOLEAN,
                res : R \cup {Nothing, "absent"}, live : BOOLEAN]
      /\ k.st = "broken" /\ k.kind = m.kind /\ k.live = m.live
  BY <1>4, <1>5
<1> HIDE DEF k
<1>7. k \in TimelineCalls
  <2>1. k \in CallsOf({"list"}, A, R)
    BY <1>6 DEF CallsOf
  <2> QED
    BY <2>1 DEF TimelineCalls, ListCalls, A, R
<1>8. m.kind = "list"
  BY <1>2
<1>9. TimelineOK(mounted, f, q, db, [net EXCEPT ![c] = k])
  BY <1>1, <1>6, <1>7, <1>8, TimelineCallStep DEF m
<1> QED
  BY <1>2, <1>9, TimelineStep

\* An answer of the server.
LEMMA TimelineAnswer ==
  ASSUME TimelineInv, NEW c \in Slot, net[c].st = "sent", NEW ok \in BOOLEAN, NEW r, Serve(c, ok, r),
         mounted' = mounted, f' = f, q' = q, Later(db, db'),
         net[c].kind = "list" => r \in NoteLists /\ r.ver = db'.ver,
         net[c].kind = "tlstatus" => /\ r \in Tellings
                                     /\ r.build <= db'.build /\ (r.st = "DONE" => r.build >= 1),
         net[c].kind = "tlrows" => r \in 0..MaxBuild /\ (ok => r >= net[c].arg.build),
         net[c].kind \in {"build", "export"} => r = Nothing,
         net[c].kind \in NoteKinds => r \in Nat /\ r <= db'.ver
  PROVE  TimelineInv'
<1> DEFINE m == net[c]
           k == [m EXCEPT !.st = "answered", !.ok = ok, !.res = r]
<1>1. net \in [Slot -> TimelineCalls] /\ TimelineOK(mounted, f, q, db', net)
  BY TimelineParts, TimelineGrows DEF TimelineInv
<1>2. net' = [net EXCEPT ![c] = k]
  BY <1>1 DEF Serve
<1>3. m \in TimelineCalls /\ m.kind # "none"
  BY <1>1, TimelineCallIs
<1> HIDE DEF m
<1>4. PICK K, A, R : /\ m \in CallsOf(K, A, R) /\ CallsOf(K, A, R) \subseteq TimelineCalls
                     /\ (m.kind = "list" => R = NoteLists)
                     /\ (m.kind = "tlstatus" => R = Tellings)
                     /\ (m.kind = "tlrows" => R = 0..MaxBuild)
                     /\ (m.kind \in {"build", "export"} => R = {Nothing})
                     /\ (m.kind \in NoteKinds => R = Nat)
  BY <1>3, TimelineCallOf
<1>5. r \in R
  <2>1. m.kind = "list" \/ m.kind = "tlstatus" \/ m.kind = "tlrows" \/ m.kind \in {"build", "export"} \/ m.kind \in NoteKinds
    BY <1>3, TimelineCallIs DEF TimelineKinds, NoteKinds
  <2>2. CASE m.kind = "list"
    BY <1>4, <2>2 DEF m
  <2>3. CASE m.kind = "tlstatus"
    BY <1>4, <2>3 DEF m
  <2>4. CASE m.kind = "tlrows"
    BY <1>4, <2>4 DEF m
  <2>5. CASE m.kind \in {"build", "export"}
    BY <1>4, <2>5 DEF m
  <2>6. CASE m.kind \in NoteKinds
    BY <1>4, <2>6 DEF m
  <2> QED
    BY <2>1, <2>2, <2>3, <2>4, <2>5, <2>6
<1>6. k \in CallsOf(K, A, R)
  <2>1. m \in CallsOf(K, A, R)
    BY <1>4
  <2> QED
    BY Zenon, <1>5, <2>1, CallMoves
<1>7. m \in [st : {"sent", "answered", "broken"}, kind : K, arg : A, try : 1..2, ok : BOOLEAN,
             res : R \cup {Nothing, "absent"}, live : BOOLEAN]
  BY <1>4 DEF CallsOf
<1>8. k.kind = m.kind /\ k.arg = m.arg /\ k.live = m.live /\ (k.ok <=> ok) /\ k.res = r
  BY <1>7
<1>9. k \in TimelineCalls
  BY <1>4, <1>6
<1> HIDE DEF k
<1>10. TimelineOK(mounted, f, q, db', [net EXCEPT ![c] = k])
  BY <1>1, <1>8, <1>9, TimelineCallStep DEF m
<1> QED
  BY <1>2, <1>10, TimelineStep

\* The server stays as it is, or goes on.
LEMMA TimelineLater ==
  ASSUME TimelineInv
  PROVE  /\ db \in TimelineDbs /\ db.ver \in Nat /\ db.build \in 0..MaxBuild /\ db.st \in {"none", "BUILDING", "DONE", "FAILED"}
         /\ db.rows \in [Row -> Value] /\ Later(db, db)
<1>1. db \in TimelineDbs /\ Builds(f, db, net)
  BY TimelineParts
<1>2. /\ db.ver \in Nat /\ db.build \in 0..MaxBuild /\ db.st \in {"none", "BUILDING", "DONE", "FAILED"}
      /\ db.rows \in [Row -> Value]
  BY <1>1 DEF TimelineDbs
<1>3. db.build \in Nat
  BY <1>1, TimelineNumbers
<1> QED
  BY <1>1, <1>2, <1>3 DEF Later, Builds

\* A fetch of the annotations is answered.
LEMMA TimelineListServed == \A c \in Slot : TimelineInv /\ ServeList(c) => TimelineInv'
<1> SUFFICES ASSUME NEW c \in Slot, TimelineInv, ServeList(c) PROVE TimelineInv'
  OBVIOUS
<1> DEFINE r == Result(db.ver, db.rows, None)
           ok == TRUE
<1>1. net[c].st = "sent" /\ net[c].kind = "list" /\ Serve(c, ok, r) /\ UNCHANGED <<mounted, f, q, db>>
  BY DEF ServeList, Asked
<1>2. db.ver \in Nat /\ db.rows \in [Row -> Value] /\ Later(db, db')
  BY <1>1, TimelineLater
<1>3. r \in NoteLists /\ r.ver = db'.ver
  BY <1>1, <1>2 DEF Result, NoteLists
<1>4. ok \in BOOLEAN /\ net[c].kind \notin NoteKinds
  BY <1>1 DEF NoteKinds
<1> HIDE DEF r, ok
<1> QED
  BY <1>1, <1>2, <1>3, <1>4, TimelineAnswer

\* The server's part.
LEMMA TimelineServedKeeps == \A c \in Slot : TimelineInv /\ TimelineServed(c) => TimelineInv'
<1> SUFFICES ASSUME NEW c \in Slot, TimelineInv, TimelineServed(c) PROVE TimelineInv'
  OBVIOUS
<1>1. /\ db \in TimelineDbs /\ db.ver \in Nat /\ db.build \in 0..MaxBuild /\ db.st \in {"none", "BUILDING", "DONE", "FAILED"}
      /\ db.rows \in [Row -> Value] /\ Later(db, db)
  BY TimelineLater
<1>2. net \in [Slot -> TimelineCalls] /\ Builds(f, db, net)
  BY TimelineParts
<1>3. MaxBuild \in Nat
  BY TimelineNumbers
<1>4. CASE ServeTlStatus(c)
  <2> DEFINE r == [st |-> db.st, build |-> db.build]
             ok == db.st # "none"
  <2>1. net[c].st = "sent" /\ net[c].kind = "tlstatus" /\ Serve(c, ok, r) /\ UNCHANGED <<mounted, f, q, db>>
    BY <1>4 DEF ServeTlStatus, Asked
  <2>2. r \in Tellings /\ r.build = db.build /\ r.st = db.st
    BY <1>1 DEF Tellings
  <2>3. r.build <= db.build /\ (r.st = "DONE" => r.build >= 1)
    BY <1>1, <1>2, <1>3, <2>2 DEF Builds
  <2>4. ok \in BOOLEAN /\ net[c].kind \notin NoteKinds
    BY <2>1 DEF NoteKinds
  <2> HIDE DEF r, ok
  <2> QED
    BY <1>1, <2>1, <2>2, <2>3, <2>4, TimelineAnswer
<1>5. CASE ServeTlRows(c)
  <2> DEFINE ok == db.st = "DONE"
  <2>1. net[c].st = "sent" /\ net[c].kind = "tlrows" /\ Serve(c, ok, db.build) /\ UNCHANGED <<mounted, f, q, db>>
    BY <1>5 DEF ServeTlRows, Asked
  <2>2. net[c].arg.build <= db.build /\ net[c].arg.build \in 1..MaxBuild
    BY <1>2, <2>1, TimelineArgs, TimelineNumbers DEF Builds
  <2>3. db.build >= net[c].arg.build
    BY <1>1, <1>3, <2>2
  <2>4. ok \in BOOLEAN /\ net[c].kind \notin NoteKinds
    BY <2>1 DEF NoteKinds
  <2> HIDE DEF ok
  <2> QED
    BY <1>1, <2>1, <2>3, <2>4, TimelineAnswer
<1>6. CASE ServeBuild(c)
  <2> DEFINE d == [db EXCEPT !.st = "BUILDING"]
             ok == TRUE
  <2>1. net[c].st = "sent" /\ net[c].kind = "build" /\ db.build < MaxBuild /\ Serve(c, ok, Nothing) /\ db' = d /\ UNCHANGED <<mounted, f, q>>
    BY <1>6 DEF ServeBuild, Asked
  <2>2. d \in TimelineDbs /\ d.ver = db.ver /\ d.build = db.build /\ d.st = "BUILDING"
    BY <1>1 DEF TimelineDbs
  <2>3. Later(db, d)
    BY <1>1, <1>3, <2>1, <2>2 DEF Later
  <2>4. ok \in BOOLEAN /\ net[c].kind \notin NoteKinds
    BY <2>1 DEF NoteKinds
  <2> HIDE DEF ok, d
  <2> QED
    BY <2>1, <2>3, <2>4, TimelineAnswer
<1>9. CASE RefuseBuild(c)
  <2> DEFINE d == IF db' = db THEN db ELSE [db EXCEPT !.st = "FAILED"]
             ok == FALSE
  <2>1. net[c].st = "sent" /\ net[c].kind = "build" /\ Serve(c, ok, Nothing) /\ db' = d /\ UNCHANGED <<mounted, f, q>>
    BY <1>9 DEF RefuseBuild, Asked
  <2>2. d \in TimelineDbs /\ d.ver = db.ver /\ d.build = db.build /\ (d.st = db.st \/ d.st = "FAILED")
    BY <1>1 DEF TimelineDbs
  <2>3. Later(db, d)
    BY <1>1, <1>3, <2>1, <2>2 DEF Later
  <2>4. ok \in BOOLEAN /\ net[c].kind \notin NoteKinds
    BY <2>1 DEF NoteKinds
  <2> HIDE DEF ok, d
  <2> QED
    BY <2>1, <2>3, <2>4, TimelineAnswer
<1>7. CASE ServeExport(c)
  <2> DEFINE ok == db.st = "DONE"
  <2>1. net[c].st = "sent" /\ net[c].kind = "export" /\ Serve(c, ok, Nothing) /\ UNCHANGED <<mounted, f, q, db>>
    BY <1>7 DEF ServeExport, Asked
  <2>2. ok \in BOOLEAN /\ net[c].kind \notin NoteKinds
    BY <2>1 DEF NoteKinds
  <2> HIDE DEF ok
  <2> QED
    BY <1>1, <2>1, <2>2, TimelineAnswer
<1>8. CASE ServeNote(c)
  <2> DEFINE x == net[c].arg.row
             y == net[c].arg.val
             rows == [db.rows EXCEPT ![x] = y]
             v == db.ver + 1
             d == [db EXCEPT !.ver = v, !.rows = rows]
             ok == TRUE
  <2>1. /\ net[c].st = "sent" /\ (net[c].kind = "note" \/ net[c].kind = "unnote" \/ net[c].kind = "send")
        /\ Serve(c, ok, v) /\ db' = d /\ UNCHANGED <<mounted, f, q>>
    BY <1>1, <1>8 DEF ServeNote, Asked, TimelineDbs
  <2>2. net[c].kind \in NoteKinds /\ net[c].kind \notin {"list", "tlstatus", "tlrows", "build", "export"}
    BY <2>1 DEF NoteKinds
  <2>3. net[c].arg.row \in Row /\ net[c].arg.val \in {"on", "off"}
    BY <1>2, <2>2, TimelineArgs DEF Notings
  <2>4. rows \in [Row -> Value]
    BY <1>1, <2>3 DEF Value
  <2>5. v \in Nat /\ db.ver <= v /\ v <= v
    BY <1>1
  <2> HIDE DEF rows, v
  <2>6. d \in TimelineDbs /\ d.ver = v /\ d.build = db.build /\ d.st = db.st
    BY <1>1, <2>4, <2>5 DEF TimelineDbs
  <2>7. Later(db, d)
    BY <1>1, <2>5, <2>6 DEF Later
  <2>8. ok \in BOOLEAN
    OBVIOUS
  <2> HIDE DEF ok, d
  <2> QED
    BY <2>1, <2>2, <2>5, <2>6, <2>7, <2>8, TimelineAnswer
<1> QED
  BY <1>4, <1>5, <1>6, <1>7, <1>8, <1>9 DEF TimelineServed

\* Builds that end, and a colleague who annotates.
LEMMA TimelineOthersKeep == TimelineInv /\ (BuildEnds \/ \E r \in Row : Colleague(r)) => TimelineInv'
<1> SUFFICES ASSUME TimelineInv, BuildEnds \/ \E r \in Row : Colleague(r) PROVE TimelineInv'
  OBVIOUS
<1>1. /\ db \in TimelineDbs /\ db.ver \in Nat /\ db.build \in 0..MaxBuild /\ db.rows \in [Row -> Value] /\ Later(db, db)
  BY TimelineLater
<1>2. UNCHANGED <<mounted, f, q, net>>
  BY DEF BuildEnds, Colleague
<1>3. MaxBuild \in Nat
  BY TimelineNumbers
<1>4. Later(db, db')
  <2>1. CASE BuildEnds
    <3> DEFINE v == db.build + 1
               d == [db EXCEPT !.st = "DONE", !.build = v]
               e == [db EXCEPT !.st = "FAILED"]
    <3>1. (db' = d \/ db' = e) /\ db.st = "BUILDING"
      BY <1>1, <2>1 DEF BuildEnds, TimelineDbs
    <3>2. db.build < MaxBuild
      BY <3>1, TimelineParts DEF Builds
    <3>3. v \in 0..MaxBuild /\ db.build <= v /\ v >= 1
      BY <1>1, <1>3, <3>2
    <3> HIDE DEF v
    <3>4. d \in TimelineDbs /\ d.ver = db.ver /\ d.build = v /\ d.st = "DONE"
      BY <1>1, <3>3 DEF TimelineDbs
    <3>5. e \in TimelineDbs /\ e.ver = db.ver /\ e.build = db.build /\ e.st = "FAILED"
      BY <1>1 DEF TimelineDbs
    <3> HIDE DEF d, e
    <3> QED
      BY <1>1, <3>1, <3>3, <3>4, <3>5 DEF Later
  <2>2. ASSUME NEW r \in Row, Colleague(r) PROVE Later(db, db')
    <3> DEFINE rows == [db.rows EXCEPT ![r] = "on"]
               v == db.ver + 1
               d == [db EXCEPT !.ver = v, !.rows = rows]
    <3>1. db' = d
      BY <1>1, <2>2 DEF Colleague, TimelineDbs
    <3>2. rows \in [Row -> Value] /\ v \in Nat /\ db.ver <= v
      BY <1>1 DEF Value
    <3> HIDE DEF rows, v
    <3>3. d \in TimelineDbs /\ d.ver = v /\ d.build = db.build /\ d.st = db.st
      BY <1>1, <3>2 DEF TimelineDbs
    <3> HIDE DEF d
    <3> QED
      BY <1>1, <3>1, <3>2, <3>3 DEF Later
  <2> QED
    BY <2>1, <2>2
<1>5. TimelineOK(mounted, f, q, db', net)
  BY <1>4, TimelineGrows DEF TimelineInv
<1> QED
  BY <1>2, <1>5, TimelineStep

\* Forms that name and show the same.
Alike(g, h) ==
  /\ h \in TimelineFs /\ h.told = g.told /\ h.build = g.build /\ h.rows = g.rows
  /\ h.acked = g.acked /\ h.importing = g.importing

\* Buttons, filters and page numbers.
LEMMA FormsAlike ==
  ASSUME NEW g \in TimelineFs
  PROVE  /\ \A b \in BOOLEAN : /\ Alike(g, [g EXCEPT !.posting = b]) /\ Alike(g, [g EXCEPT !.exporting = b])
                               /\ Alike(g, [g EXCEPT !.saving = b])
         /\ \A v \in {"all", "host"}, i \in 1..2 : Alike(g, [g EXCEPT !.flt = v, !.no = i])
         /\ \A v \in {"all", "host"} : Alike(g, [g EXCEPT !.flt = v])
         /\ \A i \in 1..2 : Alike(g, [g EXCEPT !.no = i])
         /\ \A i \in Nat : Alike(g, [g EXCEPT !.moves = i])
BY DEF Alike, TimelineFs

\* They keep the invariant.
LEMMA TimelineAlike ==
  ASSUME NEW on, NEW g, NEW e, NEW d, NEW n, TimelineOK(on, g, e, d, n), NEW h, Alike(g, h)
  PROVE  TimelineOK(on, h, e, d, n)
<1>1. Named(h, d)
  BY TimelineNamed DEF Named, Alike
<1> QED
  BY <1>1, TimelineForm DEF Alike

\* The rows that come on the screen are asked for.
LEMMA TimelineAsks ==
  ASSUME NEW on, NEW g, NEW e, NEW d, NEW n, TimelineOK(on, g, e, d, n), Needs(g) => FreeIn(n) # {}
  PROVE  TimelineOK(on, g, e, d, Asks(n, g))
<1> DEFINE a == TimelineKey(g)
<1>1. g \in TimelineFs /\ Named(g, d)
  BY TimelineNamed
<1>2. g.build \in 1..MaxBuild /\ g.flt \in {"all", "host"} /\ g.no \in 1..2
  BY <1>1 DEF TimelineFs
<1>3. a \in RowKeys /\ a.build = g.build
  BY <1>2 DEF TimelineKey, RowKeys
<1>4. Needs(g) => g.told = "DONE"
  BY DEF Needs
<1>5. Asks(n, g) = IF Needs(g) THEN Adds(n, "tlrows", a) ELSE n
  BY DEF Asks, Adds
<1> HIDE DEF a
<1>6. Sent("tlrows", a) \in TimelineCalls /\ "tlrows" \notin NoteKinds
  BY <1>3, TimelineSends DEF NoteKinds
<1>7. ASSUME Needs(g) PROVE TimelineOK(on, g, e, d, Adds(n, "tlrows", a))
  <2>1. a.build <= d.build
    BY <1>1, <1>3, <1>4, <1>7 DEF Named
  <2> QED
    BY <1>6, <1>7, <2>1, TimelineAdds
<1> QED
  BY <1>5, <1>7

\* The state of the build is asked for, by the timer and by a button.
LEMMA TimelineAsksStatus ==
  ASSUME NEW on, NEW g, NEW e, NEW d, NEW n, TimelineOK(on, g, e, d, n), FreeIn(n) # {}
  PROVE  /\ TimelineOK(on, g, e, d, With(n, "tlstatus", Nothing, TRUE))
         /\ TimelineOK(on, g, e, d, With(n, "build", Nothing, TRUE))
<1>1. /\ Sent("tlstatus", Nothing) \in TimelineCalls /\ "tlstatus" \notin NoteKinds
      /\ Sent("build", Nothing) \in TimelineCalls /\ "build" \notin NoteKinds
  BY TimelineSends DEF NoteKinds
<1>2. TimelineOK(on, g, e, d, Adds(n, "tlstatus", Nothing))
  BY <1>1, TimelineAdds
<1>3. TimelineOK(on, g, e, d, Adds(n, "build", Nothing))
  BY <1>1, TimelineAdds
<1> QED
  BY <1>2, <1>3 DEF Adds

\* The state of the build: polled, and read.
LEMMA TimelineTickKeeps == TimelineInv /\ StatusTick => TimelineInv'
<1> SUFFICES ASSUME TimelineInv, StatusTick PROVE TimelineInv'
  OBVIOUS
<1>1. UNCHANGED <<mounted, f, q, db>> /\ net' = With(net, "tlstatus", Nothing, TRUE) /\ FreeIn(net) # {}
  BY RoomIs DEF StatusTick, Room
<1>2. TimelineOK(mounted, f, q, db, net')
  BY <1>1, TimelineAsksStatus DEF TimelineInv
<1> QED
  BY <1>1, <1>2, TimelineStep

\* Its answer.
LEMMA TlStatusKeeps == \A c \in Slot : TimelineInv /\ (TlStatusArrives(c) \/ TlStatusFails(c)) => TimelineInv'
<1> SUFFICES ASSUME NEW c \in Slot, TimelineInv, TlStatusArrives(c) \/ TlStatusFails(c) PROVE TimelineInv'
  OBVIOUS
<1>1. /\ TimelineOK(mounted, f, q, db, net) /\ f \in TimelineFs /\ net \in [Slot -> TimelineCalls] /\ db \in TimelineDbs
      /\ Builds(f, db, net) /\ Named(f, db)
  BY TimelineParts, TimelineNamed DEF TimelineInv
<1> DEFINE n == Without(net, c)
<1>2. net[c].kind = "tlstatus" /\ UNCHANGED <<mounted, q, db>>
  BY DEF TlStatusArrives, TlStatusFails, Resolved, Rejected, Then
<1>3. TimelineOK(mounted, f, q, db, n) /\ FreeIn(n) # {}
  BY <1>1, <1>2, TimelineWithout
<1> HIDE DEF n
<1>4. CASE TlStatusArrives(c)
  <2> DEFINE s == net[c].res.st
             b == IF s = "DONE" THEN net[c].res.build ELSE f.build
             g == [f EXCEPT !.told = s, !.build = b]
  <2>1. net[c].st = "answered" /\ net[c].ok
    BY <1>4 DEF TlStatusArrives, Resolved
  <2>2. /\ f' = IF net[c].live THEN g ELSE f
        /\ net' = IF net[c].live THEN Asks(n, g) ELSE n
    BY <1>1, <1>4 DEF TlStatusArrives, Then, TimelineFs, n
  <2>3. net[c].res \in Tellings
    BY <1>1, <1>2, <2>1, TimelineArgs
  <2>4. /\ net[c].res.build \in 0..MaxBuild /\ net[c].res.build <= db.build
        /\ s \in {"none", "BUILDING", "DONE", "FAILED"} /\ (s = "DONE" => net[c].res.build >= 1)
    BY <1>1, <1>2, <2>1, <2>3 DEF Builds, Tellings
  <2>5. b \in 1..MaxBuild /\ (s = "DONE" => b <= db.build)
    BY <1>1, <2>4, TimelineNumbers
  <2> HIDE DEF s, b
  <2>6. /\ g \in TimelineFs /\ g.told = s /\ g.build = b /\ g.rows = f.rows /\ g.acked = f.acked /\ g.importing = f.importing
    BY <1>1, <2>4, <2>5 DEF TimelineFs
  <2> HIDE DEF g
  <2>7. Named(g, db)
    BY <1>1, <2>5, <2>6 DEF Named
  <2>8. TimelineOK(mounted, g, q, db, n)
    BY <1>3, <2>6, <2>7, TimelineForm
  <2>9. TimelineOK(mounted, g, q, db, Asks(n, g))
    BY <1>3, <2>8, TimelineAsks
  <2> QED
    BY <1>2, <1>3, <2>2, <2>9, TimelineStep
<1>5. CASE TlStatusFails(c)
  <2> DEFINE s == IF f.told # "unknown" THEN f.told ELSE IF net[c].res = Nothing THEN "error" ELSE "none"
             g == [f EXCEPT !.told = s]
  <2>1. f' = (IF net[c].live THEN g ELSE f) /\ net' = n
    BY <1>1, <1>5 DEF TlStatusFails, Then, TimelineFs, n
  <2>2. s \in {"unknown", "error", "none", "BUILDING", "DONE", "FAILED"} /\ (s = "DONE" => f.told = "DONE")
    BY <1>1 DEF TimelineFs
  <2> HIDE DEF s
  <2>3. g \in TimelineFs /\ g.told = s /\ g.build = f.build /\ g.rows = f.rows /\ g.acked = f.acked /\ g.importing = f.importing
    BY <1>1, <2>2 DEF TimelineFs
  <2> HIDE DEF g
  <2>4. Named(g, db)
    BY <1>1, <2>2, <2>3 DEF Named
  <2>5. TimelineOK(mounted, g, q, db, n)
    BY <1>3, <2>3, <2>4, TimelineForm
  <2> QED
    BY <1>2, <1>3, <2>1, <2>5, TimelineStep
<1> QED
  BY <1>4, <1>5

\* The rows of a key.
LEMMA TlRowsKeep == \A c \in Slot : TimelineInv /\ (TlRowsArrive(c) \/ TlRowsFail(c)) => TimelineInv'
<1> SUFFICES ASSUME NEW c \in Slot, TimelineInv, TlRowsArrive(c) \/ TlRowsFail(c) PROVE TimelineInv'
  OBVIOUS
<1>1. /\ TimelineOK(mounted, f, q, db, net) /\ f \in TimelineFs /\ net \in [Slot -> TimelineCalls] /\ db \in TimelineDbs
      /\ Builds(f, db, net) /\ Named(f, db)
  BY TimelineParts, TimelineNamed DEF TimelineInv
<1> DEFINE n == Without(net, c)
<1>2. net[c].kind = "tlrows" /\ UNCHANGED <<mounted, q, db>> /\ net' = n
  BY DEF TlRowsArrive, TlRowsFail, Resolved, Rejected, Then
<1>3. TimelineOK(mounted, f, q, db, n)
  BY <1>1, <1>2, TimelineWithout
<1> HIDE DEF n
<1>4. CASE TlRowsArrive(c)
  <2> DEFINE k == net[c].arg
             r == net[c].res
             rows == [f.rows EXCEPT ![k] = r]
             g == [f EXCEPT !.rows = rows]
  <2>1. f' = IF net[c].live THEN g ELSE f
    BY <1>1, <1>4 DEF TlRowsArrive, Then, TimelineFs
  <2>2. net[c].st = "answered" /\ net[c].ok
    BY <1>4 DEF TlRowsArrive, Resolved
  <2>3. k \in RowKeys /\ r \in 0..MaxBuild /\ r >= k.build
    BY <1>1, <1>2, <2>2, TimelineArgs DEF Builds
  <2>4. f.rows \in [RowKeys -> 0..MaxBuild]
    BY <1>1 DEF TimelineFs
  <2> HIDE DEF k, r
  <2>5. rows \in [RowKeys -> 0..MaxBuild] /\ \A j \in RowKeys : rows[j] = 0 \/ rows[j] >= j.build
    BY <1>1, <2>3, <2>4 DEF Named
  <2> HIDE DEF rows
  <2>6. g \in TimelineFs /\ g.told = f.told /\ g.build = f.build /\ g.rows = rows /\ g.acked = f.acked /\ g.importing = f.importing
    BY <1>1, <2>5 DEF TimelineFs
  <2> HIDE DEF g
  <2>7. Named(g, db)
    BY <1>1, <2>5, <2>6 DEF Named
  <2>8. TimelineOK(mounted, g, q, db, n)
    BY <1>3, <2>6, <2>7, TimelineForm
  <2> QED
    BY <1>2, <1>3, <2>1, <2>8, TimelineStep
<1>5. CASE TlRowsFail(c)
  <2>1. f' = f
    BY <1>5 DEF TlRowsFail, Then
  <2> QED
    BY <1>2, <1>3, <2>1, TimelineStep
<1> QED
  BY <1>4, <1>5

\* A build is triggered, begun or refused.
LEMMA TriggerBuildKeeps == TimelineInv /\ triggerBuild => TimelineInv'
<1> SUFFICES ASSUME TimelineInv, triggerBuild PROVE TimelineInv'
  OBVIOUS
<1> DEFINE yes == TRUE
           g == [f EXCEPT !.posting = yes]
<1>1. UNCHANGED <<mounted, q, db>> /\ f' = g /\ net' = With(net, "build", Nothing, TRUE) /\ FreeIn(net) # {}
  BY RoomIs DEF triggerBuild, Calls, Room
<1>2. TimelineOK(mounted, f, q, db, net) /\ f \in TimelineFs
  BY TimelineParts DEF TimelineInv
<1>3. yes \in BOOLEAN
  OBVIOUS
<1> HIDE DEF yes
<1>4. Alike(f, g)
  BY Zenon, <1>2, <1>3, FormsAlike
<1> HIDE DEF g
<1>5. TimelineOK(mounted, f, q, db, net')
  BY <1>1, <1>2, TimelineAsksStatus
<1>6. TimelineOK(mounted, g, q, db, net')
  BY <1>4, <1>5, TimelineAlike
<1> QED
  BY <1>1, <1>6, TimelineStep

\* The answer to it.
LEMMA BuildKeeps == \A c \in Slot : TimelineInv /\ (BuildBegun(c) \/ BuildRefused(c)) => TimelineInv'
<1> SUFFICES ASSUME NEW c \in Slot, TimelineInv, BuildBegun(c) \/ BuildRefused(c) PROVE TimelineInv'
  OBVIOUS
<1> DEFINE no == FALSE
           g == [f EXCEPT !.posting = no]
           n == Without(net, c)
           m == [b \in Slot |-> IF n[b].kind = "tlstatus" THEN NoCall ELSE n[b]]
<1>1. /\ net[c].kind = "build" /\ UNCHANGED <<mounted, q, db>> /\ f' = (IF net[c].live THEN g ELSE f)
      /\ net' = n \/ net' = AskStatusAgain(n)
  BY DEF BuildBegun, BuildRefused, Resolved, Rejected, Then
<1>2. TimelineOK(mounted, f, q, db, net) /\ f \in TimelineFs
  BY TimelineParts DEF TimelineInv
<1>3. n \in [Slot -> TimelineCalls] /\ TimelineOK(mounted, f, q, db, n) /\ FreeIn(n) # {}
  BY <1>1, <1>2, TimelineWithout
<1>4. AskStatusAgain(n) = n \/ AskStatusAgain(n) = With(m, "tlstatus", Nothing, TRUE)
  BY DEF AskStatusAgain
<1>5. no \in BOOLEAN
  OBVIOUS
<1> HIDE DEF no, n
<1>6. m \in [Slot -> TimelineCalls] /\ \A b \in Slot : m[b] = n[b] \/ (m[b] = NoCall /\ n[b].kind # "list")
  <2>1. NoCall \in TimelineCalls
    BY TimelineCallIs DEF Calling
  <2> QED
    BY <1>3, <2>1
<1>7. FreeIn(m) # {}
  <2>1. NoCall.st = "idle"
    BY NoCallIs
  <2> QED
    BY <1>3, <1>6, <2>1 DEF FreeIn
<1> HIDE DEF m
<1>8. TimelineOK(mounted, f, q, db, m)
  BY <1>3, <1>6, TimelineDrop
<1>9. TimelineOK(mounted, f, q, db, With(m, "tlstatus", Nothing, TRUE))
  BY <1>7, <1>8, TimelineAsksStatus
<1>10. TimelineOK(mounted, f, q, db, net')
  BY <1>1, <1>3, <1>4, <1>9
<1>11. Alike(f, g)
  BY Zenon, <1>2, <1>5, FormsAlike
<1> HIDE DEF g
<1>12. TimelineOK(mounted, g, q, db, net')
  BY <1>10, <1>11, TimelineAlike
<1> QED
  BY <1>1, <1>10, <1>12, TimelineStep

\* Filters and page numbers.
LEMMA TurnsKeep == \A g : TimelineInv /\ Alike(f, g) /\ Turns(g) => TimelineInv'
<1> SUFFICES ASSUME NEW g, TimelineInv, Alike(f, g), Turns(g) PROVE TimelineInv'
  OBVIOUS
<1> DEFINE i == g.moves + 1
           h == [g EXCEPT !.moves = i]
<1>1. g \in TimelineFs /\ TimelineOK(mounted, f, q, db, net)
  BY DEF TimelineInv, Alike
<1>2. UNCHANGED <<mounted, q, db>> /\ f' = h /\ net' = Asks(net, g) /\ (Needs(g) => FreeIn(net) # {})
  BY <1>1, RoomIs DEF Turns, Room, TimelineFs
<1>3. i \in Nat
  <2>1. g.moves \in Nat
    BY <1>1 DEF TimelineFs
  <2> QED
    BY <2>1
<1> HIDE DEF i
<1>4. Alike(g, h)
  BY Zenon, <1>1, <1>3, FormsAlike
<1> HIDE DEF h
<1>5. TimelineOK(mounted, g, q, db, net)
  BY <1>1, TimelineAlike
<1>6. TimelineOK(mounted, g, q, db, net')
  BY <1>2, <1>5, TimelineAsks
<1>7. TimelineOK(mounted, h, q, db, net')
  BY <1>4, <1>6, TimelineAlike
<1> QED
  BY <1>2, <1>7, TimelineStep

\* The controls that change them.
LEMMA TimelineFiltersKeep == TimelineInv /\ (toggleHost \/ searchRows \/ clearAll \/ turnPage) => TimelineInv'
<1> SUFFICES ASSUME TimelineInv, toggleHost \/ searchRows \/ clearAll \/ turnPage PROVE TimelineInv'
  OBVIOUS
<1>1. f \in TimelineFs
  BY TimelineParts
<1> DEFINE v == IF f.flt = "all" THEN "host" ELSE "all"
           i == IF f.no = 1 THEN 2 ELSE 1
           one == 1
           g1 == [f EXCEPT !.flt = v, !.no = one]
           g2 == [f EXCEPT !.flt = "host"]
           g3 == [f EXCEPT !.flt = "all", !.no = one]
           g4 == [f EXCEPT !.no = i]
<1>2. Turns(g1) \/ Turns(g2) \/ Turns(g3) \/ Turns(g4)
  <2>1. CASE toggleHost
    <3>1. g1 = [f EXCEPT !.flt = IF @ = "all" THEN "host" ELSE "all", !.no = 1]
      BY <1>1 DEF TimelineFs
    <3> QED
      BY Zenon, <2>1, <3>1 DEF toggleHost
  <2>2. CASE searchRows
    BY Zenon, <2>2 DEF searchRows
  <2>3. CASE clearAll
    BY Zenon, <2>3 DEF clearAll
  <2>4. CASE turnPage
    <3>1. g4 = [f EXCEPT !.no = IF @ = 1 THEN 2 ELSE 1]
      BY <1>1 DEF TimelineFs
    <3> QED
      BY Zenon, <2>4, <3>1 DEF turnPage
  <2> QED
    BY <2>1, <2>2, <2>3, <2>4
<1>3. v \in {"all", "host"} /\ i \in 1..2 /\ one \in 1..2
  OBVIOUS
<1> HIDE DEF v, i, one
<1>4. Alike(f, g1) /\ Alike(f, g2) /\ Alike(f, g3) /\ Alike(f, g4)
  BY Zenon, <1>1, <1>3, FormsAlike
<1> HIDE DEF g1, g2, g3, g4
<1> QED
  BY <1>2, <1>4, TurnsKeep

\* The export.
LEMMA HandleExportKeeps == TimelineInv /\ handleExport => TimelineInv'
<1> SUFFICES ASSUME TimelineInv, handleExport PROVE TimelineInv'
  OBVIOUS
<1> DEFINE yes == TRUE
           g == [f EXCEPT !.exporting = yes]
           s == Least(FreeIn(net))
           y == Sent("export", Nothing)
           x == [y EXCEPT !.try = MAX_RETRIES]
<1>1. UNCHANGED <<mounted, q, db>> /\ f' = g /\ net' = [net EXCEPT ![s] = x] /\ FreeIn(net) # {}
  BY RoomIs DEF handleExport, Room, Sent
<1>2. TimelineOK(mounted, f, q, db, net) /\ f \in TimelineFs
  BY TimelineParts DEF TimelineInv
<1>3. yes \in BOOLEAN
  OBVIOUS
<1> HIDE DEF yes
<1>4. Alike(f, g)
  BY Zenon, <1>2, <1>3, FormsAlike
<1>5. s \in Slot /\ net[s].st = "idle"
  BY <1>1, FreeSlot
<1>6. x \in TimelineCalls /\ x.st = "sent" /\ x.kind = "export"
  <2> DEFINE K == {"build", "export"}
             A == {Nothing}
  <2>1. "export" \in K /\ Nothing \in A /\ ButtonCalls = CallsOf(K, A, A)
    BY DEF ButtonCalls
  <2> HIDE DEF K, A
  <2>2. y \in CallsOf(K, A, A) /\ y.st = "sent" /\ y.kind = "export"
    BY <2>1, HeldCallIs
  <2> HIDE DEF y
  <2>3. /\ y \in [st : {"sent", "answered", "broken"}, kind : K, arg : A, try : 1..2, ok : BOOLEAN,
                  res : A \cup {Nothing, "absent"}, live : BOOLEAN]
        /\ y.st = "sent" /\ y.kind = "export"
    BY <2>2 DEF CallsOf
  <2>4. MAX_RETRIES \in 1..2
    BY DEF MAX_RETRIES
  <2>5. /\ x \in [st : {"sent", "answered", "broken"}, kind : K, arg : A, try : 1..2, ok : BOOLEAN,
                  res : A \cup {Nothing, "absent"}, live : BOOLEAN]
        /\ x.st = "sent" /\ x.kind = "export"
    BY <2>3, <2>4
  <2> HIDE DEF x
  <2>6. x \in CallsOf(K, A, A)
    BY <2>5 DEF CallsOf
  <2> QED
    BY <2>1, <2>5, <2>6 DEF TimelineCalls
<1> HIDE DEF g, s, x
<1>7. x.kind \notin NoteKinds
  BY <1>6 DEF NoteKinds
<1>8. TimelineOK(mounted, f, q, db, [net EXCEPT ![s] = x])
  BY <1>2, <1>5, <1>6, <1>7, TimelinePut
<1>9. TimelineOK(mounted, g, q, db, [net EXCEPT ![s] = x])
  BY <1>4, <1>8, TimelineAlike
<1> QED
  BY <1>1, <1>9, TimelineStep

\* Its end.
LEMMA ExportEndsKeeps == \A c \in Slot : TimelineInv /\ ExportEnds(c) => TimelineInv'
<1> SUFFICES ASSUME NEW c \in Slot, TimelineInv, ExportEnds(c) PROVE TimelineInv'
  OBVIOUS
<1> DEFINE no == FALSE
           g == [f EXCEPT !.exporting = no]
           n == Without(net, c)
<1>1. net[c].kind = "export" /\ UNCHANGED <<mounted, q, db>> /\ f' = (IF net[c].live THEN g ELSE f) /\ net' = n
  BY DEF ExportEnds, Resolved, Rejected, Then
<1>2. TimelineOK(mounted, f, q, db, net) /\ f \in TimelineFs
  BY TimelineParts DEF TimelineInv
<1>3. TimelineOK(mounted, f, q, db, n)
  BY <1>1, <1>2, TimelineWithout
<1>4. no \in BOOLEAN
  OBVIOUS
<1> HIDE DEF no, n
<1>5. Alike(f, g)
  BY Zenon, <1>2, <1>4, FormsAlike
<1> HIDE DEF g
<1>6. TimelineOK(mounted, g, q, db, n)
  BY <1>3, <1>5, TimelineAlike
<1> QED
  BY <1>1, <1>3, <1>6, TimelineStep

\* The annotations arrive, or their last attempt fails.
LEMMA NotesReadKeeps == \A c \in Slot : TimelineInv /\ (NotesArrive(c) \/ NotesFail(c)) => TimelineInv'
<1> SUFFICES ASSUME NEW c \in Slot, TimelineInv, NotesArrive(c) \/ NotesFail(c) PROVE TimelineInv'
  OBVIOUS
<1>1. /\ mounted \in BOOLEAN /\ db \in TimelineDbs /\ q \in TimelineQs /\ f \in TimelineFs /\ net \in [Slot -> TimelineCalls]
      /\ Builds(f, db, net) /\ Listed(q, db, net) /\ Noted(mounted, f, q, db, net) /\ Fresh(f, q, net)
      /\ TimelineOK(mounted, f, q, db, net)
  BY TimelineParts DEF TimelineInv
<1> DEFINE n == Without(net, c)
<1>2. net[c].kind = "list" /\ UNCHANGED <<mounted, f, db>> /\ net' = n
  BY DEF NotesArrive, NotesFail, LastFetch, Resolved, Rejected
<1>3. n \in [Slot -> TimelineCalls] /\ n[c] = NoCall /\ \A b \in Slot : b # c => n[b] = net[b]
  BY <1>1, TimelineWithout
<1> HIDE DEF n
<1>4. NoCall.kind = "none"
  BY NoCallIs
<1>5. (\A b \in Slot : n[b].kind # "none" => n[b] = net[b]) /\ \A b \in Slot : n[b].kind # "list"
  BY <1>1, <1>2, <1>3, <1>4 DEF Listed
<1>6. Builds(f, db, n)
  BY <1>1, <1>5 DEF Builds
<1>7. ASSUME NEW e, e.have \/ (e.have <=> q.have) PROVE Noted(mounted, f, e, db, n)
  <2>1. \A b \in Slot : n[b].kind \in NoteKinds => n[b] = net[b]
    BY <1>5 DEF NoteKinds
  <2> QED
    BY <1>1, <1>5, <1>7, <2>1 DEF Noted
<1>8. CASE NotesArrive(c)
  <2> DEFINE r == net[c].res
             e == [q EXCEPT !.have = TRUE, !.ver = r.ver, !.rows = r.rows, !.err = FALSE, !.inv = FALSE]
  <2>1. net[c].st = "answered" /\ net[c].ok /\ q' = e
    BY <1>8 DEF NotesArrive, Resolved, Arrived
  <2>2. r \in NoteLists
    BY <1>1, <1>2, <2>1, TimelineArgs
  <2>3. r.ver <= db.ver /\ (~f.importing => f.acked <= r.ver)
    BY <1>1, <1>2, <2>1 DEF Listed, Fresh
  <2> HIDE DEF r
  <2>4. r.ver \in Nat /\ r.rows \in [Row -> Value]
    BY <2>2 DEF NoteLists
  <2>5. e \in TimelineQs /\ e.have /\ e.ver = r.ver
    BY <1>1, <2>4 DEF TimelineQs
  <2> HIDE DEF e
  <2>6. Listed(e, db, n) /\ Fresh(f, e, n)
    BY <1>5, <2>3, <2>5 DEF Listed, Fresh
  <2>7. TimelineOK(mounted, f, e, db, n)
    BY <1>1, <1>3, <1>6, <1>7, <2>5, <2>6, TimelineIs
  <2> QED
    BY <1>2, <2>1, <2>7, TimelineStep
<1>9. CASE NotesFail(c)
  <2> DEFINE e == [q EXCEPT !.err = TRUE]
  <2>1. q' = e
    BY <1>9 DEF NotesFail
  <2>2. e \in TimelineQs /\ (e.have <=> q.have) /\ e.ver = q.ver /\ e.err
    BY <1>1 DEF TimelineQs
  <2> HIDE DEF e
  <2>3. Listed(e, db, n) /\ Fresh(f, e, n)
    BY <1>1, <1>5, <2>2 DEF Listed, Fresh
  <2>4. TimelineOK(mounted, f, e, db, n)
    BY <1>1, <1>3, <1>6, <1>7, <2>2, <2>3, TimelineIs
  <2> QED
    BY <1>2, <2>1, <2>4, TimelineStep
<1> QED
  BY <1>8, <1>9

\* No import is under way: none of its requests is.
LEMMA NoSends ==
  ASSUME NEW on, NEW g, NEW e, NEW d, NEW n, TimelineOK(on, g, e, d, n)
  PROVE  (g.importing \/ ~Held(n, "send")) /\ g.acked <= d.ver /\ Named(g, d) /\ g \in TimelineFs
<1>1. Noted(on, g, e, d, n)
  BY TimelineIs
<1> QED
  BY <1>1, TimelineNamed DEF Noted, Held

\* The annotations are asked for once more.
LEMMA TimelineFetchAgain == \A c \in Slot : TimelineInv /\ FetchAgain(c) => TimelineInv'
<1> SUFFICES ASSUME NEW c \in Slot, TimelineInv, FetchAgain(c) PROVE TimelineInv'
  OBVIOUS
<1>1. net \in [Slot -> TimelineCalls] /\ Listed(q, db, net) /\ TimelineOK(mounted, f, q, db, net)
  BY TimelineParts DEF TimelineInv
<1> DEFINE u == Without(net, c)
           s == Least(FreeIn(u))
           a == [net[c].arg EXCEPT !.val = "again"]
           l == net[c].live
           x == NewCall("list", a, l)
<1>2. net[c].kind = "list" /\ UNCHANGED <<mounted, f, q, db>> /\ net' = [u EXCEPT ![s] = x]
  BY DEF FetchAgain, Rejected, With
<1>3. net[c].arg \in [row : {"page"}, val : {"first", "again"}] /\ l \in BOOLEAN
  BY <1>1, <1>2, TimelineArgs, TimelineCallIs
<1>4. a = Arg("page", "again")
  BY <1>3 DEF Arg
<1> HIDE DEF l, a
<1>5. x \in TimelineCalls
  <2> DEFINE v == "again"
  <2>1. v \in {"first", "again"} /\ a = Arg("page", v)
    BY <1>4
  <2> HIDE DEF v
  <2> QED
    BY <1>3, <2>1, TimelineSends DEF TimelineCalls
<1>6. x.st = "sent" /\ x.kind = "list"
  BY <1>3, NewCallIs
<1>7. u \in [Slot -> TimelineCalls] /\ FreeIn(u) # {} /\ u[c] = NoCall /\ \A b \in Slot : b # c => u[b] = net[b]
  BY <1>1, TimelineWithout
<1> HIDE DEF u, x
<1>8. \A b \in Slot : u[b] = IF net[b].kind = "list" THEN NoCall ELSE net[b]
  BY <1>1, <1>2, <1>7 DEF Listed
<1>9. s \in Slot /\ u[s].st = "idle"
  BY <1>7, FreeSlot
<1> HIDE DEF s
<1>10. (f.importing \/ ~Held(net, "send")) /\ f.acked <= db.ver /\ Named(f, db) /\ f \in TimelineFs
  BY <1>1, NoSends
<1>11. TimelineOK(mounted, f, q, db, [u EXCEPT ![s] = x])
  BY <1>1, <1>5, <1>6, <1>7, <1>8, <1>9, <1>10, TimelineRelist
<1> QED
  BY <1>2, <1>11, TimelineStep

\* The entry is marked.
LEMMA TimelineMarked ==
  ASSUME NEW on, NEW g, NEW e, NEW d, NEW n, TimelineOK(on, g, e, d, n), NEW b \in BOOLEAN
  PROVE  TimelineOK(on, g, [e EXCEPT !.inv = b], d, n)
<1> DEFINE x == [e EXCEPT !.inv = b]
<1>1. /\ on \in BOOLEAN /\ d \in TimelineDbs /\ e \in TimelineQs /\ g \in TimelineFs /\ n \in [Slot -> TimelineCalls]
      /\ Builds(g, d, n) /\ Listed(e, d, n) /\ Noted(on, g, e, d, n) /\ Fresh(g, e, n)
  BY TimelineIs
<1>2. x \in TimelineQs /\ x.have = e.have /\ x.ver = e.ver /\ x.err = e.err
  BY <1>1 DEF TimelineQs
<1> HIDE DEF x
<1>3. Listed(x, d, n)
  BY <1>1, <1>2 DEF Listed
<1>4. Noted(on, g, x, d, n)
  BY <1>1, <1>2 DEF Noted
<1>5. Fresh(g, x, n)
  BY <1>1, <1>2 DEF Fresh
<1>6. TimelineOK(on, g, x, d, n)
  BY <1>1, <1>2, <1>3, <1>4, <1>5, TimelineIs
<1> QED
  BY <1>6 DEF x

\* What the page does after a change of the annotations.
LEMMA TimelineNotes ==
  ASSUME TimelineInv, NEW c \in Slot, net[c].kind \in NoteKinds, NEW g, Notes(c, g),
         net[c].live => /\ g \in TimelineFs /\ Named(g, db) /\ g.acked <= db.ver
                        /\ g.importing \/ ~Held(Without(net, c), "send")
  PROVE  TimelineInv'
<1> DEFINE n == Without(net, c)
           b == ~mounted \/ (~q.have /\ ListFlying)
           e == [q EXCEPT !.inv = b]
<1>1. TimelineOK(mounted, f, q, db, net) /\ mounted \in BOOLEAN /\ Noted(mounted, f, q, db, net)
  BY TimelineParts DEF TimelineInv
<1>2. /\ f' = (IF net[c].live THEN g ELSE f) /\ q' = e /\ net' = Invalidate(n) /\ UNCHANGED <<mounted, db>>
  BY DEF Notes, Marked
<1>3. net[c].kind # "list"
  BY DEF NoteKinds
<1>4. TimelineOK(mounted, f, q, db, n) /\ FreeIn(n) # {}
  BY <1>1, <1>3, TimelineWithout
<1>5. b \in BOOLEAN
  OBVIOUS
<1>6. q.have /\ (net[c].live => mounted = TRUE)
  BY <1>1 DEF Noted
<1>7. net' = IF ~mounted THEN n ELSE Fetch(Unlisted(n), "page")
  BY <1>2, <1>6 DEF Invalidate
<1>8. net[c].live => g.importing \/ ~Held(n, "send")
  OBVIOUS
<1> HIDE DEF n, b
<1>9. TimelineOK(mounted, f, e, db, n)
  BY <1>4, <1>5, TimelineMarked
<1> HIDE DEF e
<1>10. CASE ~mounted
  <2>1. f' = f /\ net' = n
    BY <1>2, <1>6, <1>7, <1>10
  <2> QED
    BY <1>2, <1>9, <2>1, TimelineStep
<1>11. CASE mounted
  <2>1. net' = Fetch(Unlisted(n), "page")
    BY <1>7, <1>11
  <2>2. f' \in TimelineFs /\ Named(f', db) /\ f'.acked <= db.ver /\ (f'.importing \/ ~Held(n, "send"))
    <3>1. (f.importing \/ ~Held(n, "send")) /\ f.acked <= db.ver /\ Named(f, db) /\ f \in TimelineFs
      BY <1>9, NoSends
    <3>2. CASE net[c].live
      BY <1>2, <1>8, <3>2
    <3>3. CASE ~net[c].live
      BY <1>2, <3>1, <3>3
    <3> QED
      BY <3>2, <3>3
  <2> DEFINE h == f'
             m == Fetch(Unlisted(n), "page")
  <2>3. h \in TimelineFs /\ Named(h, db) /\ h.acked <= db.ver /\ (h.importing \/ ~Held(n, "send"))
    BY <2>2
  <2> HIDE DEF h
  <2>4. TimelineOK(mounted, h, e, db, m)
    BY <1>4, <1>9, <2>3, TimelineRefetch
  <2> QED
    BY <1>2, <2>1, <2>4, TimelineStep DEF h
<1> QED
  BY <1>1, <1>10, <1>11

\* The version at which the last annotation was saved.
LEMMA AckedIs ==
  ASSUME TimelineInv, NEW c \in Slot, net[c].kind \in NoteKinds, net[c].st = "answered", net[c].ok
  PROVE  Acked(c) \in Nat /\ Acked(c) <= db.ver
<1>1. f \in TimelineFs /\ db \in TimelineDbs /\ net \in [Slot -> TimelineCalls] /\ Noted(mounted, f, q, db, net)
  BY TimelineParts
<1>2. net[c].res \in Nat /\ net[c].res <= db.ver
  BY <1>1, TimelineArgs DEF Noted
<1>3. f.acked \in Nat /\ f.acked <= db.ver
  BY <1>1, TimelineNumbers DEF Noted
<1> QED
  BY <1>2, <1>3 DEF Acked

\* A request of the import leaves its slot: no other is under way.
LEMMA SendGone ==
  ASSUME TimelineInv, NEW c \in Slot, net[c].kind = "send", net[c].live
  PROVE  ~Held(Without(net, c), "send") /\ f.importing
<1>1. Noted(mounted, f, q, db, net) /\ net \in [Slot -> TimelineCalls] /\ TimelineOK(mounted, f, q, db, net)
  BY TimelineParts DEF TimelineInv
<1> DEFINE n == Without(net, c)
<1>2. n[c] = NoCall /\ \A b \in Slot : b # c => n[b] = net[b]
  BY <1>1, TimelineWithout
<1> HIDE DEF n
<1>3. ~Held(n, "send")
  BY <1>1, <1>2, NoCallIs DEF Noted, Held
<1> QED
  BY <1>1, <1>3 DEF Noted, n

\* saveAnnotation.
LEMMA NoteKeeps == \A c \in Slot : TimelineInv /\ (NoteSaved(c) \/ NoteFails(c)) => TimelineInv'
<1> SUFFICES ASSUME NEW c \in Slot, TimelineInv, NoteSaved(c) \/ NoteFails(c) PROVE TimelineInv'
  OBVIOUS
<1>1. f \in TimelineFs /\ TimelineOK(mounted, f, q, db, net) /\ Named(f, db)
  BY TimelineParts, TimelineNamed DEF TimelineInv
<1> DEFINE b == IF net[c].kind = "note" THEN FALSE ELSE f.saving
           v == Acked(c)
           g == [f EXCEPT !.acked = v, !.saving = b]
           h == [f EXCEPT !.saving = b]
           n == Without(net, c)
<1>2. net[c].kind \in NoteKinds /\ net[c].kind # "list"
  BY DEF NoteSaved, NoteFails, Resolved, Rejected, NoteKinds
<1>3. b \in BOOLEAN
  BY <1>1 DEF TimelineFs
<1>4. TimelineOK(mounted, f, q, db, n)
  BY <1>1, <1>2, TimelineWithout
<1>5. CASE NoteSaved(c)
  <2>1. net[c].st = "answered" /\ net[c].ok
    BY <1>5 DEF NoteSaved, Resolved
  <2>2. Notes(c, g)
    <3>1. g = [f EXCEPT !.acked = Acked(c), !.saving = IF net[c].kind = "note" THEN FALSE ELSE @]
      BY <1>1 DEF TimelineFs
    <3> QED
      BY Zenon, <1>5, <3>1 DEF NoteSaved
  <2>3. v \in Nat /\ v <= db.ver
    BY <1>2, <2>1, AckedIs
  <2> HIDE DEF b, v
  <2>4. g \in TimelineFs /\ g.told = f.told /\ g.build = f.build /\ g.rows = f.rows /\ g.acked = v /\ g.importing = f.importing
    BY <1>1, <1>3, <2>3 DEF TimelineFs
  <2> HIDE DEF g
  <2>5. Named(g, db) /\ (g.importing \/ ~Held(Without(net, c), "send"))
    BY <1>1, <1>4, <2>4, NoSends DEF Named
  <2> QED
    BY <1>2, <2>2, <2>3, <2>4, <2>5, TimelineNotes
<1>6. CASE NoteFails(c)
  <2>1. f' = (IF net[c].live THEN h ELSE f) /\ net' = n /\ UNCHANGED <<mounted, q, db>>
    BY <1>1, <1>6 DEF NoteFails, Then, TimelineFs
  <2> HIDE DEF b, n
  <2>2. Alike(f, h)
    BY Zenon, <1>1, <1>3, FormsAlike
  <2> HIDE DEF h
  <2>3. TimelineOK(mounted, h, q, db, n)
    BY <1>4, <2>2, TimelineAlike
  <2> QED
    BY <1>4, <2>1, <2>3, TimelineStep
<1> QED
  BY <1>5, <1>6

\* While an import is under way its form need not be fresh.
LEMMA TimelineImporting ==
  ASSUME NEW on, NEW g, NEW e, NEW d, NEW n, TimelineOK(on, g, e, d, n),
         NEW h \in TimelineFs, Named(h, d), h.acked <= d.ver, h.importing
  PROVE  TimelineOK(on, h, e, d, n)
<1>1. /\ on \in BOOLEAN /\ d \in TimelineDbs /\ e \in TimelineQs /\ g \in TimelineFs /\ n \in [Slot -> TimelineCalls]
      /\ Builds(g, d, n) /\ Listed(e, d, n) /\ Noted(on, g, e, d, n)
  BY TimelineIs
<1>2. Builds(h, d, n)
  BY <1>1 DEF Builds, Named
<1>3. Noted(on, h, e, d, n)
  BY <1>1 DEF Noted
<1>4. Fresh(h, e, n)
  BY DEF Fresh
<1> QED
  BY <1>1, <1>2, <1>3, <1>4, TimelineIs

\* The import goes on, ends or breaks.
LEMMA ImportKeeps == \A c \in Slot : TimelineInv /\ (ImportNext(c) \/ ImportEnds(c) \/ ImportBreaks(c)) => TimelineInv'
<1> SUFFICES ASSUME NEW c \in Slot, TimelineInv, ImportNext(c) \/ ImportEnds(c) \/ ImportBreaks(c) PROVE TimelineInv'
  OBVIOUS
<1>1. /\ f \in TimelineFs /\ TimelineOK(mounted, f, q, db, net) /\ Named(f, db) /\ Noted(mounted, f, q, db, net)
      /\ f.acked <= db.ver /\ f.acked \in Nat /\ net \in [Slot -> TimelineCalls]
  BY TimelineParts, TimelineNamed, NoSends, TimelineNumbers DEF TimelineInv
<1>2. net[c].kind = "send" /\ net[c].kind # "list" /\ net[c].kind \in NoteKinds
  BY DEF ImportNext, ImportEnds, ImportBreaks, Resolved, Rejected, NoteKinds
<1> DEFINE n == Without(net, c)
           v == Acked(c)
           no == FALSE
<1>3. TimelineOK(mounted, f, q, db, n) /\ FreeIn(n) # {}
  BY <1>1, <1>2, TimelineWithout
<1>4. no \in BOOLEAN /\ ~no
  OBVIOUS
<1>5. CASE ImportNext(c)
  <2> DEFINE rest == net[c].arg.rest
             r == CHOOSE x \in rest : TRUE
             S == rest \ {r}
             g == [f EXCEPT !.acked = v]
             k == "send"
             on == "on"
             a == Note(r, on, S)
             l == net[c].live
  <2>1. net[c].st = "answered" /\ net[c].ok /\ rest # {}
    BY <1>5 DEF ImportNext, Resolved
  <2>2. f' = (IF l THEN g ELSE f) /\ net' = With(n, k, a, l) /\ UNCHANGED <<mounted, q, db>>
    BY <1>5 DEF ImportNext, Then
  <2>3. r \in Row /\ S \in SUBSET Row /\ l \in BOOLEAN
    <3>1. rest \in SUBSET Row
      BY <1>1, <1>2, TimelineArgs DEF Notings
    <3>2. l \in BOOLEAN
      BY <1>1, TimelineCallIs
    <3> QED
      BY <2>1, <3>1, <3>2
  <2>4. v \in Nat /\ v <= db.ver
    BY <1>2, <2>1, AckedIs
  <2>5. l => ~Held(n, "send") /\ f.importing
    BY <1>2, SendGone
  <2>6. q.have /\ (l => mounted = TRUE)
    BY <1>1, <1>2 DEF Noted
  <2>7. k = "send" /\ k \in NoteKinds /\ k # "tlrows" /\ k # "list" /\ on \in {"on", "off"}
    BY DEF NoteKinds
  <2> HIDE DEF rest, r, S, v, n, k, on, l
  <2>8. g \in TimelineFs /\ g.told = f.told /\ g.build = f.build /\ g.rows = f.rows /\ g.acked = v /\ g.importing = f.importing
    BY <1>1, <2>4 DEF TimelineFs
  <2> HIDE DEF g
  <2>9. Named(g, db)
    BY <1>1, <2>8 DEF Named
  <2>10. NewCall(k, a, l) \in TimelineCalls /\ Sent(k, a) \in TimelineCalls
    BY <2>3, <2>7, TimelineSends
  <2> HIDE DEF a
  <2>11. CASE l
    <3>1. g.importing /\ g.acked <= db.ver /\ ~Held(n, "send")
      BY <2>4, <2>5, <2>8, <2>11
    <3>2. TimelineOK(mounted, g, q, db, n)
      BY <1>3, <2>8, <2>9, <3>1, TimelineImporting
    <3>3. TimelineOK(mounted, g, q, db, Adds(n, k, a))
      BY <1>3, <2>6, <2>7, <2>10, <2>11, <3>1, <3>2, TimelineAdds
    <3>4. l = TRUE
      BY <2>3, <2>11
    <3>5. f' = g /\ net' = Adds(n, k, a)
      BY <2>2, <3>4 DEF Adds
    <3> QED
      BY <2>2, <3>3, <3>5, TimelineStep
  <2>12. CASE ~l
    <3> DEFINE s == Least(FreeIn(n))
               x == NewCall(k, a, l)
    <3>1. s \in Slot /\ n[s].st = "idle"
      BY <1>3, FreeSlot
    <3>2. x.st = "sent" /\ x.kind = k /\ x.arg = a /\ ~x.live
      BY <2>3, <2>12, NewCallIs
    <3>3. f' = f /\ net' = [n EXCEPT ![s] = x]
      BY <2>2, <2>12 DEF With
    <3>4. x \in TimelineCalls
      BY <2>10
    <3> HIDE DEF s, x
    <3>5. TimelineOK(mounted, f, q, db, [n EXCEPT ![s] = x])
      BY <1>3, <2>6, <2>7, <3>1, <3>2, <3>4, TimelinePut
    <3> QED
      BY <2>2, <3>3, <3>5, TimelineStep
  <2> QED
    BY <2>11, <2>12
<1>6. CASE ImportEnds(c)
  <2> DEFINE g == [f EXCEPT !.importing = no, !.acked = v]
  <2>1. net[c].st = "answered" /\ net[c].ok /\ Notes(c, g)
    BY <1>6 DEF ImportEnds, Resolved
  <2>2. v \in Nat /\ v <= db.ver
    BY <1>2, <2>1, AckedIs
  <2> HIDE DEF v, no
  <2>3. g \in TimelineFs /\ g.told = f.told /\ g.build = f.build /\ g.rows = f.rows /\ g.acked = v
    BY <1>1, <1>4, <2>2 DEF TimelineFs
  <2> HIDE DEF g
  <2>4. Named(g, db) /\ g.acked <= db.ver
    BY <1>1, <2>2, <2>3 DEF Named
  <2>5. net[c].live => ~Held(Without(net, c), "send")
    BY <1>2, SendGone
  <2> QED
    BY <1>2, <2>1, <2>3, <2>4, <2>5, TimelineNotes
<1>7. CASE ImportBreaks(c)
  <2> DEFINE g == [f EXCEPT !.importing = no]
  <2>1. Notes(c, g)
    BY <1>7 DEF ImportBreaks
  <2> HIDE DEF no
  <2>2. g \in TimelineFs /\ g.told = f.told /\ g.build = f.build /\ g.rows = f.rows /\ g.acked = f.acked
    BY <1>1, <1>4 DEF TimelineFs
  <2> HIDE DEF g
  <2>3. Named(g, db) /\ g.acked <= db.ver
    BY <1>1, <2>2 DEF Named
  <2>4. net[c].live => ~Held(Without(net, c), "send")
    BY <1>2, SendGone
  <2> QED
    BY <1>2, <2>1, <2>2, <2>3, <2>4, TimelineNotes
<1> QED
  BY <1>5, <1>6, <1>7

\* The import begins.
LEMMA ImportBegins == TimelineInv /\ importBrowserAnnotations => TimelineInv'
<1> SUFFICES ASSUME TimelineInv, importBrowserAnnotations PROVE TimelineInv'
  OBVIOUS
<1>1. /\ f \in TimelineFs /\ TimelineOK(mounted, f, q, db, net) /\ Named(f, db)
      /\ f.acked <= db.ver /\ f.acked \in Nat /\ mounted \in BOOLEAN /\ (f.importing \/ ~Held(net, "send"))
  BY TimelineParts, TimelineNamed, NoSends, TimelineNumbers DEF TimelineInv
<1> DEFINE new == Row \ Rows(q.rows)
           r == CHOOSE x \in new : TRUE
           S == new \ {r}
           yes == TRUE
           g == [f EXCEPT !.importing = yes]
           k == "send"
           on == "on"
           a == Note(r, on, S)
<1>2. /\ NotesKnown /\ ~f.importing /\ new # {}
      /\ f' = g /\ net' = Adds(net, k, a) /\ UNCHANGED <<mounted, q, db>> /\ FreeIn(net) # {}
  BY RoomIs DEF importBrowserAnnotations, Calls, Room, Adds
<1>3. r \in Row /\ S \in SUBSET Row /\ yes \in BOOLEAN /\ yes
  BY <1>2
<1>4. q.have /\ mounted = TRUE
  BY <1>1, <1>2 DEF NotesKnown, OnTimeline, OnPage
<1>5. k = "send" /\ k \in NoteKinds /\ k # "tlrows" /\ k # "list" /\ on \in {"on", "off"}
  BY DEF NoteKinds
<1> HIDE DEF new, r, S, yes, k, on
<1>6. g \in TimelineFs /\ g.told = f.told /\ g.build = f.build /\ g.rows = f.rows /\ g.acked = f.acked /\ g.importing
  BY <1>1, <1>3 DEF TimelineFs
<1> HIDE DEF g
<1>7. Named(g, db) /\ g.acked <= db.ver
  BY <1>1, <1>6 DEF Named
<1>8. TimelineOK(mounted, g, q, db, net)
  BY <1>1, <1>6, <1>7, TimelineImporting
<1>9. Sent(k, a) \in TimelineCalls
  BY <1>3, <1>5, TimelineSends
<1> HIDE DEF a
<1>10. TimelineOK(mounted, g, q, db, Adds(net, k, a))
  BY <1>1, <1>2, <1>4, <1>5, <1>6, <1>8, <1>9, TimelineAdds
<1> QED
  BY <1>2, <1>10, TimelineStep

\* Annotations made by hand.
LEMMA BookmarkKeeps == \A r \in Row : TimelineInv /\ (toggleBookmark(r) \/ onRemoveBookmark(r)) => TimelineInv'
<1> SUFFICES ASSUME NEW r \in Row, TimelineInv, toggleBookmark(r) \/ onRemoveBookmark(r) PROVE TimelineInv'
  OBVIOUS
<1>1. f \in TimelineFs /\ TimelineOK(mounted, f, q, db, net) /\ mounted \in BOOLEAN
  BY TimelineParts DEF TimelineInv
<1>2. NotesKnown /\ UNCHANGED <<mounted, q, db>> /\ FreeIn(net) # {}
  BY RoomIs DEF toggleBookmark, onRemoveBookmark, Calls, Room
<1>3. q.have /\ mounted = TRUE
  BY <1>1, <1>2 DEF NotesKnown, OnTimeline, OnPage
<1>4. ASSUME NEW k \in {"note", "unnote"}, NEW v \in {"on", "off"} PROVE TimelineOK(mounted, f, q, db, Adds(net, k, Note(r, v, {})))
  <2> DEFINE none == {}
             a == Note(r, v, none)
  <2>1. k \in NoteKinds /\ k # "tlrows" /\ k # "list" /\ k # "send" /\ none \in SUBSET Row /\ TRUE \in BOOLEAN
    BY DEF NoteKinds
  <2>2. Sent(k, a) \in TimelineCalls
    BY <2>1, TimelineSends
  <2> HIDE DEF a
  <2>3. TimelineOK(mounted, f, q, db, Adds(net, k, a))
    BY <1>1, <1>2, <1>3, <2>1, <2>2, TimelineAdds
  <2> QED
    BY <2>3 DEF a
<1>5. CASE toggleBookmark(r)
  <2> DEFINE yes == TRUE
             g == [f EXCEPT !.saving = yes]
             v == Marks(r)
             k == "note"
  <2>1. f' = g /\ net' = Adds(net, k, Note(r, v, {}))
    BY <1>5 DEF toggleBookmark, Calls, Adds
  <2>2. v \in {"on", "off"} /\ k \in {"note", "unnote"} /\ yes \in BOOLEAN
    BY DEF Marks
  <2> HIDE DEF v, k, yes
  <2>3. TimelineOK(mounted, f, q, db, net')
    BY <1>4, <2>1, <2>2
  <2>4. Alike(f, g)
    BY Zenon, <1>1, <2>2, FormsAlike
  <2> HIDE DEF g
  <2>5. TimelineOK(mounted, g, q, db, net')
    BY <2>3, <2>4, TimelineAlike
  <2> QED
    BY <1>2, <2>1, <2>5, TimelineStep
<1>6. CASE onRemoveBookmark(r)
  <2> DEFINE v == "off"
             k == "unnote"
  <2>1. f' = f /\ net' = Adds(net, k, Note(r, v, {}))
    BY <1>6 DEF onRemoveBookmark, Calls, Adds
  <2>2. v \in {"on", "off"} /\ k \in {"note", "unnote"}
    OBVIOUS
  <2> HIDE DEF v, k
  <2>3. TimelineOK(mounted, f, q, db, net')
    BY <1>4, <2>1, <2>2
  <2> QED
    BY <1>2, <2>1, <2>3, TimelineStep
<1> QED
  BY <1>5, <1>6

\* A call whose page is gone.
LEMMA TimelineOrphan ==
  ASSUME NEW m \in TimelineCalls
  PROVE  /\ [m EXCEPT !.live = FALSE] \in TimelineCalls
         /\ \A k : k = [m EXCEPT !.live = FALSE] =>
              k.kind = m.kind /\ k.st = m.st /\ k.ok = m.ok /\ k.res = m.res /\ k.arg = m.arg /\ ~k.live
<1> DEFINE k == [m EXCEPT !.live = FALSE]
<1>1. CASE m.kind = "none"
  <2>1. m = NoCall
    BY <1>1, TimelineCallIs
  <2>2. k = m
    BY <2>1, NoCallDead
  <2> QED
    BY <2>1, <2>2, NoCallIs
<1>2. CASE m.kind # "none"
  <2>1. PICK K, A, R : m \in CallsOf(K, A, R) /\ CallsOf(K, A, R) \subseteq TimelineCalls
    BY <1>2, TimelineCallOf
  <2>2. k \in CallsOf(K, A, R)
    BY Zenon, <2>1, CallMoves
  <2>3. m \in [st : {"sent", "answered", "broken"}, kind : K, arg : A, try : 1..2, ok : BOOLEAN,
               res : R \cup {Nothing, "absent"}, live : BOOLEAN]
    BY <2>1 DEF CallsOf
  <2>4. k.kind = m.kind /\ k.st = m.st /\ k.ok = m.ok /\ k.res = m.res /\ k.arg = m.arg /\ ~k.live
    BY <2>3
  <2> QED
    BY <2>1, <2>2, <2>4
<1> QED
  BY <1>1, <1>2

\* A page that begins.
LEMMA FreshForm ==
  ASSUME NEW i \in Nat, NEW h, h = [TimelineF EXCEPT !.moves = i] \/ h = TimelineF
  PROVE  h \in TimelineFs /\ h.acked = 0 /\ ~h.importing /\ h.told = "unknown" /\ (\A k \in RowKeys : h.rows[k] = 0)
<1> DEFINE none == [k \in RowKeys |-> 0]
           one == 1
<1>1. one \in 1..MaxBuild /\ 0 \in 0..MaxBuild
  BY TimelineNumbers
<1>2. none \in [RowKeys -> 0..MaxBuild] /\ \A k \in RowKeys : none[k] = 0
  BY <1>1
<1>3. TimelineF = [told |-> "unknown", build |-> one, flt |-> "all", no |-> one, rows |-> none, posting |-> FALSE, exporting |-> FALSE,
                   saving |-> FALSE, importing |-> FALSE, acked |-> 0, moves |-> 0]
  BY DEF TimelineF
<1>4. one \in 1..2
  OBVIOUS
<1> HIDE DEF none, one
<1>5. TimelineF \in TimelineFs /\ TimelineF.acked = 0 /\ ~TimelineF.importing /\ TimelineF.told = "unknown" /\ TimelineF.rows = none
  BY <1>1, <1>2, <1>3, <1>4 DEF TimelineFs
<1> DEFINE g == TimelineF
<1> HIDE DEF g
<1>6. g \in TimelineFs /\ g.acked = 0 /\ ~g.importing /\ g.told = "unknown" /\ g.rows = none /\ (h = [g EXCEPT !.moves = i] \/ h = g)
  BY <1>5 DEF g
<1>7. h \in TimelineFs /\ h.acked = g.acked /\ h.importing = g.importing /\ h.told = g.told /\ h.rows = g.rows
  BY <1>6 DEF TimelineFs
<1> QED
  BY <1>2, <1>6, <1>7

\* The page is left.
LEMMA TimelineLeaveKeeps == TimelineInv /\ TimelineLeave => TimelineInv'
<1> SUFFICES ASSUME TimelineInv, TimelineLeave PROVE TimelineInv'
  OBVIOUS
<1>1. /\ db \in TimelineDbs /\ q \in TimelineQs /\ f \in TimelineFs /\ net \in [Slot -> TimelineCalls]
      /\ Builds(f, db, net) /\ Listed(q, db, net) /\ Noted(mounted, f, q, db, net)
  BY TimelineParts
<1> DEFINE i == f.moves
           h == [TimelineF EXCEPT !.moves = i]
           m == Orphaned(net)
           on == FALSE
<1>2. mounted' = on /\ f' = h /\ net' = m /\ q' = q /\ db' = db
  BY DEF TimelineLeave, Leaves
<1>3. i \in Nat
  BY <1>1 DEF TimelineFs
<1> HIDE DEF i
<1>4. h \in TimelineFs /\ h.acked = 0 /\ ~h.importing /\ h.told = "unknown" /\ (\A k \in RowKeys : h.rows[k] = 0)
  BY <1>3, FreshForm
<1> HIDE DEF h
<1>5. ASSUME NEW c \in Slot
      PROVE  /\ m[c] \in TimelineCalls
             /\ \/ m[c] = NoCall
                \/ /\ m[c].kind = net[c].kind /\ m[c].st = net[c].st /\ m[c].ok = net[c].ok
                   /\ m[c].res = net[c].res /\ m[c].arg = net[c].arg /\ ~m[c].live
  <2> DEFINE y == net[c]
  <2>1. m[c] = IF y.kind \in Reads THEN NoCall ELSE [y EXCEPT !.live = FALSE]
    BY DEF Orphaned
  <2>2. y \in TimelineCalls /\ NoCall \in TimelineCalls
    BY <1>1, TimelineCallIs DEF Calling
  <2> HIDE DEF y
  <2>3. CASE y.kind \in Reads
    BY <2>1, <2>2, <2>3
  <2>4. CASE y.kind \notin Reads
    <3>1. m[c] = [y EXCEPT !.live = FALSE]
      BY <2>1, <2>4
    <3> QED
      BY <2>2, <3>1, TimelineOrphan DEF y
  <2> QED
    BY <2>3, <2>4
<1>6. m \in [Slot -> TimelineCalls]
  <2>1. m = [c \in Slot |-> m[c]]
    BY DEF Orphaned
  <2> QED
    BY <1>5, <2>1
<1> HIDE DEF m
<1>7. \A c \in Slot : m[c].kind # "none" => /\ m[c].kind = net[c].kind /\ m[c].st = net[c].st /\ m[c].ok = net[c].ok
                                            /\ m[c].res = net[c].res /\ m[c].arg = net[c].arg /\ ~m[c].live
  BY <1>5, NoCallIs
<1>8. Builds(h, db, m)
  <2>1. (db.st = "DONE" => db.build >= 1) /\ (db.st = "BUILDING" => db.build < MaxBuild)
    BY <1>1 DEF Builds
  <2>2. \A c \in Slot : m[c].kind = "tlstatus" /\ m[c].st = "answered" /\ m[c].ok =>
          m[c].res.build <= db.build /\ (m[c].res.st = "DONE" => m[c].res.build >= 1)
    BY <1>1, <1>7 DEF Builds
  <2>3. \A c \in Slot : m[c].kind = "tlrows" => m[c].arg.build <= db.build /\ (m[c].st = "answered" /\ m[c].ok => m[c].res >= m[c].arg.build)
    BY <1>1, <1>7 DEF Builds
  <2> QED
    BY <1>4, <2>1, <2>2, <2>3 DEF Builds
<1>9. Listed(q, db, m)
  BY <1>1, <1>7 DEF Listed
<1>10. \A c \in Slot : m[c].kind \in NoteKinds => m[c].kind # "none"
  BY DEF NoteKinds
<1>11. db.ver \in Nat /\ q.ver \in Nat
  BY <1>1, TimelineNumbers
<1>12. Noted(on, h, q, db, m)
  <2>1. \A c \in Slot : m[c].kind \in NoteKinds => q.have /\ ~m[c].live /\ (m[c].st = "answered" /\ m[c].ok => m[c].res <= db.ver)
    BY <1>1, <1>7, <1>10 DEF Noted
  <2>2. \A c \in Slot : m[c].kind = "send" => ~m[c].live
    BY <1>7
  <2>3. h.acked <= db.ver
    BY <1>4, <1>11
  <2> QED
    BY <2>1, <2>2, <2>3 DEF Noted
<1>13. Fresh(h, q, m)
  <2>1. h.acked <= q.ver
    BY <1>4, <1>11
  <2>2. ASSUME NEW c \in Slot, m[c].kind = "list", m[c].st = "answered", m[c].ok PROVE h.acked <= m[c].res.ver
    <3>1. m[c].res \in NoteLists
      BY <1>6, <2>2, TimelineArgs
    <3>2. m[c].res.ver \in Nat
      BY <3>1 DEF NoteLists
    <3> QED
      BY <1>4, <3>2
  <2> QED
    BY <2>1, <2>2 DEF Fresh
<1>14. on \in BOOLEAN
  OBVIOUS
<1> HIDE DEF on
<1>15. TimelineOK(on, h, q, db, m)
  BY <1>1, <1>4, <1>6, <1>8, <1>9, <1>12, <1>13, <1>14, TimelineIs
<1> QED
  BY <1>2, <1>15, TimelineStep

\* The page is entered again.
LEMMA TimelineReturnKeeps == TimelineInv /\ TimelineReturn => TimelineInv'
<1> SUFFICES ASSUME TimelineInv, TimelineReturn PROVE TimelineInv'
  OBVIOUS
<1>1. /\ mounted \in BOOLEAN /\ db \in TimelineDbs /\ q \in TimelineQs /\ f \in TimelineFs /\ net \in [Slot -> TimelineCalls]
      /\ Builds(f, db, net) /\ Listed(q, db, net) /\ Noted(mounted, f, q, db, net) /\ Fresh(f, q, net)
  BY TimelineParts
<1> DEFINE on == TRUE
           s == Least(FreeIn(net))
           x == Sent("list", Arg("page", "first"))
           n == [net EXCEPT ![s] = x]
<1>2. /\ mounted' = on /\ f' = f /\ q' = q /\ db' = db /\ Cardinality(FreeIn(net)) >= 2
      /\ \/ net' = With(net, "tlstatus", Nothing, TRUE)
         \/ ~ListFlying /\ net' = With(n, "tlstatus", Nothing, TRUE)
  BY ListCall DEF TimelineReturn, Room
<1>3. on \in BOOLEAN /\ on = TRUE
  OBVIOUS
<1> HIDE DEF on
<1>4. Noted(on, f, q, db, net)
  BY <1>1, <1>3 DEF Noted
<1>5. TimelineOK(on, f, q, db, net)
  BY <1>1, <1>3, <1>4, TimelineIs
<1>6. PICK a, b \in FreeIn(net) : a # b
  BY <1>2, RoomIs
<1>7. FreeIn(net) # {}
  BY <1>6
<1>8. s \in Slot /\ net[s].st = "idle"
  BY <1>7, FreeSlot
<1>9. x \in TimelineCalls /\ x.st = "sent" /\ x.kind = "list"
  BY ListCall, HeldCallIs
<1> HIDE DEF s, x
<1>10. FreeIn(n) # {}
  <2>1. a \in Slot /\ b \in Slot /\ net[a].st = "idle" /\ net[b].st = "idle"
    BY <1>6 DEF FreeIn
  <2>2. n[a].st = "idle" \/ n[b].st = "idle"
    BY <1>1, <1>6, <1>8, <2>1
  <2> QED
    BY <2>1, <2>2 DEF FreeIn
<1>11. TimelineOK(on, f, q, db, With(net, "tlstatus", Nothing, TRUE))
  BY <1>5, <1>7, TimelineAsksStatus
<1>12. ASSUME ~ListFlying PROVE TimelineOK(on, f, q, db, With(n, "tlstatus", Nothing, TRUE))
  <2>1. ~Flying(net, "list")
    <3>1. \A c \in Slot : net[c].kind = "list" => net[c].st # "idle"
      BY <1>1, TimelineCallIs
    <3> QED
      BY <1>12, <3>1 DEF Flying, ListFlying, IsList
  <2>2. x.kind \notin NoteKinds
    BY <1>9 DEF NoteKinds
  <2>3. TimelineOK(on, f, q, db, n)
    BY <1>5, <1>8, <1>9, <2>1, <2>2, TimelinePut
  <2> HIDE DEF n
  <2> QED
    BY <1>10, <2>3, TimelineAsksStatus
<1> HIDE DEF n
<1>13. TimelineOK(on, f, q, db, net')
  BY <1>2, <1>11, <1>12
<1> QED
  BY <1>2, <1>13, TimelineStep

\* The page is opened.
LEMMA TimelineStarts == FrameInit /\ q = NoData /\ TimelineInit => TimelineInv
<1> SUFFICES ASSUME FrameInit, q = NoData, TimelineInit PROVE TimelineInv
  OBVIOUS
<1> DEFINE n0 == [c \in Slot |-> NoCall]
           s == Least(FreeIn(n0))
           x == Sent("list", Arg("page", "first"))
           n1 == [n0 EXCEPT ![s] = x]
           t == Least(FreeIn(n1))
           y == Sent("tlstatus", Nothing)
           on == TRUE
<1>1. mounted = on /\ f = TimelineF /\ net = [n1 EXCEPT ![t] = y]
  <2>1. net = With(Fetch(n0, "page"), "tlstatus", Nothing, TRUE)
    BY DEF TimelineInit
  <2>2. Fetch(n0, "page") = n1
    BY ListCall
  <2> HIDE DEF n0, n1
  <2>3. net = [n1 EXCEPT ![t] = y]
    BY <2>1, <2>2 DEF With, Sent
  <2> QED
    BY <2>3 DEF FrameInit, TimelineInit
<1>2. on \in BOOLEAN
  OBVIOUS
<1>3. x \in TimelineCalls /\ x.st = "sent" /\ x.kind = "list" /\ y \in TimelineCalls /\ y.st = "sent" /\ y.kind = "tlstatus"
  BY ListCall, HeldCallIs, TimelineSends
<1>4. NoCall \in TimelineCalls /\ NoCall.st = "idle" /\ NoCall.kind = "none"
  BY NoCallIs, TimelineCallIs DEF Calling
<1> HIDE DEF s, x, t, y, on
<1>5. n1 \in [Slot -> TimelineCalls] /\ \A c \in Slot : n1[c] = NoCall \/ (n1[c] = x /\ c = s)
  BY <1>3, <1>4
<1> HIDE DEF n1
<1>6. net \in [Slot -> TimelineCalls] /\ \A c \in Slot : net[c] = NoCall \/ (net[c] = x /\ c = s) \/ net[c] = y
  BY <1>1, <1>3, <1>5
<1>7. \A c \in Slot : /\ net[c].st # "answered" /\ net[c].kind \in {"none", "list", "tlstatus"}
                      /\ net[c].kind = "list" => c = s
  BY <1>3, <1>4, <1>6
<1>8. 0 \in Nat /\ f \in TimelineFs /\ f.acked = 0 /\ ~f.importing /\ f.told = "unknown" /\ (\A k \in RowKeys : f.rows[k] = 0)
  <2>1. 0 \in Nat
    OBVIOUS
  <2> QED
    BY <1>1, <2>1, FreshForm
<1>9. q \in TimelineQs /\ q.ver = 0
  BY DEF NoData, TimelineQs
<1>10. /\ db \in TimelineDbs /\ db.ver = 0 /\ (db.st = "DONE" => db.build >= 1) /\ db.st # "BUILDING"
  <2>1. PICK st \in {"none", "DONE"} : db = [ver |-> 0, rows |-> [r \in Row |-> "none"], st |-> st, build |-> IF st = "DONE" THEN 1 ELSE 0]
    BY DEF TimelineInit
  <2> DEFINE rows == [r \in Row |-> "none"]
             b == IF st = "DONE" THEN 1 ELSE 0
  <2>2. rows \in [Row -> Value] /\ b \in 0..MaxBuild /\ (st = "DONE" => b >= 1)
    BY TimelineNumbers DEF Value
  <2>3. db = [ver |-> 0, rows |-> rows, st |-> st, build |-> b]
    BY <2>1
  <2> HIDE DEF rows, b
  <2> QED
    BY <2>2, <2>3 DEF TimelineDbs
<1>11. Builds(f, db, net)
  BY <1>7, <1>8, <1>10 DEF Builds
<1>12. Listed(q, db, net)
  BY <1>7, <1>9, <1>10 DEF Listed
<1>13. Noted(on, f, q, db, net)
  <2>1. \A c \in Slot : net[c].kind \notin NoteKinds /\ net[c].kind # "send"
    BY <1>7 DEF NoteKinds
  <2> QED
    BY <1>8, <1>10, <2>1 DEF Noted
<1>14. Fresh(f, q, net)
  BY <1>7, <1>8, <1>9 DEF Fresh
<1>15. TimelineOK(on, f, q, db, net)
  BY <1>2, <1>6, <1>8, <1>9, <1>10, <1>11, <1>12, <1>13, <1>14, TimelineIs
<1> QED
  BY <1>1, <1>15 DEF TimelineInv

\* TimelineInv is inductive on this page.
LEMMA TimelineNext == page = "timeline" /\ TimelineInv /\ [IncidentNext]_frame => TimelineInv'
<1> SUFFICES ASSUME page = "timeline", TimelineInv, [IncidentNext]_frame PROVE TimelineInv'
  OBVIOUS
<1>1. page \notin JobPages /\ page \notin SearchPage /\ page # "console"
  BY DEF JobPages, SearchPage
<1>2. net \in [Slot -> TimelineCalls]
  BY TimelineParts
<1>3. \A c \in Slot : ~Waiting(c, JobKinds) /\ ~Waiting(c, SearchKinds)
  <2>1. \A c \in Slot : net[c].kind \in {"none", "list"} \cup TimelineKinds /\ (net[c].st # "idle" => net[c].kind # "none")
    BY <1>2, TimelineCallIs
  <2> QED
    BY <2>1 DEF Waiting, SearchKinds, TimelineKinds, JobKinds
<1>4. ASSUME NEW c \in Slot,
             \/ ServeList(c) \/ JobServed(c) \/ SearchServed(c) \/ TimelineServed(c)
             \/ JobContinued(c) \/ SearchContinued(c) \/ TimelineContinued(c)
             \/ FetchAgain(c) \/ Retries(c) \/ Breaks(c) \/ Unserved(c) \/ Outage(c)
      PROVE  TimelineInv'
  <2>1. \/ ServeList(c) \/ TimelineServed(c) \/ TimelineContinued(c) \/ FetchAgain(c)
        \/ Retries(c) \/ Breaks(c) \/ Unserved(c) \/ Outage(c)
    BY <1>3, <1>4, CallPage
  <2>2. TimelineContinued(c) => TimelineInv'
    BY TlStatusKeeps, TlRowsKeep, BuildKeeps, ExportEndsKeeps, NotesReadKeeps, NoteKeeps, ImportKeeps DEF TimelineContinued
  <2> QED
    BY <2>1, <2>2, TimelineListServed, TimelineServedKeeps, TimelineFetchAgain, TimelineNetKeeps, TimelineOutage
<1>5. CASE TimelineUser
  <2>1. \/ StatusTick \/ triggerBuild \/ (toggleHost \/ searchRows \/ clearAll \/ turnPage) \/ handleExport
        \/ importBrowserAnnotations \/ TimelineLeave \/ TimelineReturn
        \/ \E r \in Row : toggleBookmark(r) \/ onRemoveBookmark(r)
        \/ (BuildEnds \/ \E r \in Row : Colleague(r))
    BY <1>5 DEF TimelineUser
  <2> QED
    BY <2>1, TimelineTickKeeps, TriggerBuildKeeps, TimelineFiltersKeep, HandleExportKeeps, ImportBegins, TimelineLeaveKeeps,
       TimelineReturnKeeps, BookmarkKeeps, TimelineOthersKeep
<1>6. CASE UNCHANGED frame
  BY <1>6 DEF frame, TimelineInv
<1> QED
  BY <1>1, <1>4, <1>5, <1>6, JobUserPage, SearchUserPage, ConsoleStepPage DEF IncidentNext

\* On its page TimelineInv holds.
TimelineHolds == page = "timeline" => TimelineInv

\* It holds in every state in which the timeline is the page.
LEMMA TimelinePageHolds == IncidentSpec => []TimelineHolds
<1>1. IncidentInit => TimelineHolds
  <2> SUFFICES ASSUME IncidentInit, page = "timeline" PROVE TimelineInv
    BY DEF TimelineHolds
  <2>1. FrameInit /\ q = NoData /\ TimelineInit
    BY DEF IncidentInit, JobInit, SearchInit, ConsoleInit, JobPages, SearchPage
  <2> QED
    BY <2>1, TimelineStarts
<1>2. TimelineHolds /\ [IncidentNext]_frame => TimelineHolds'
  <2> SUFFICES ASSUME TimelineHolds, [IncidentNext]_frame, page' = "timeline" PROVE TimelineInv'
    BY DEF TimelineHolds
  <2>1. page = "timeline"
    BY PageStays DEF JobPages, SearchPage
  <2> QED
    BY <2>1, TimelineNext DEF TimelineHolds
<1> QED
  BY <1>1, <1>2, PTL DEF IncidentSpec

\* SuperTimeline.tsx: the annotations on the screen include every one that was
\* reported saved, as soon as no fetch of them is under way and the last one did
\* not fail; for any number of calls, colleagues and events.
THEOREM NotesShownHolds == IncidentSpec => []NotesShown
<1>1. TimelineHolds => NotesShown
  <2> SUFFICES ASSUME TimelineHolds, OnTimeline, ~ListFlying, ~q.err, ~f.importing PROVE q.ver >= f.acked
    BY DEF NotesShown
  <2>1. TimelineInv
    BY DEF TimelineHolds, OnTimeline, OnPage
  <2>2. Fresh(f, q, net) /\ net \in [Slot -> TimelineCalls] /\ q \in TimelineQs /\ f \in TimelineFs
    BY <2>1, TimelineParts
  <2>3. ~Flying(net, "list")
    <3>1. \A c \in Slot : net[c].kind = "list" => net[c].st # "idle"
      BY <2>2, TimelineCallIs
    <3> QED
      BY <3>1 DEF Flying, ListFlying, IsList
  <2>4. f.acked <= q.ver /\ q.ver \in Nat /\ f.acked \in Nat
    BY <2>2, <2>3, TimelineNumbers DEF Fresh
  <2> QED
    BY <2>4
<1> QED
  BY <1>1, TimelinePageHolds, PTL

\* SuperTimeline.tsx and the search pages: the rows on the screen are those of
\* the filter, the text and the build that the page names beside them, in
\* whatever order answers arrive.
THEOREM RowsAsNamedHolds == IncidentSpec => []RowsAsNamed
<1>1. TimelineHolds => RowsOfBuild
  <2> SUFFICES ASSUME TimelineHolds, OnTimeline, ~RowsLoading PROVE f.rows[TimelineKey(f)] >= f.build
    BY DEF RowsOfBuild
  <2>1. TimelineInv
    BY DEF TimelineHolds, OnTimeline, OnPage
  <2>2. f \in TimelineFs /\ Builds(f, db, net)
    BY <2>1, TimelineParts
  <2> DEFINE k == TimelineKey(f)
  <2>3. k \in RowKeys /\ k.build = f.build
    BY <2>2 DEF TimelineKey, RowKeys, TimelineFs
  <2>4. f.rows[k] # 0
    BY DEF RowsLoading
  <2> HIDE DEF k
  <2>5. f.rows[k] >= f.build
    BY <2>2, <2>3, <2>4 DEF Builds
  <2> QED
    BY <2>5 DEF k
<1>2. RowsFitFilter /\ RowsOfBuild => RowsAsNamed
  BY DEF RowsAsNamed
<1> QED
  BY <1>1, <1>2, TimelinePageHolds, RowsFitFilterHolds, PTL

-----------------------------------------------------------------------------
(* What a query shows is never replaced by something older.                *)

\* What the analyst, the pipeline and the colleagues do leaves the cache alone.
LEMMA UsersKeepCache ==
  JobUser \/ SearchUser \/ TimelineUser \/ ConsoleUser \/ (\E s \in Sock : ConsoleSocket(s)) => q' = q
<1>1. \A g, k, a : Calls(g, k, a) => q' = q
  BY DEF Calls
<1>2. \A g : Does(g) => q' = q
  BY DEF Does
<1>3. \A g : Leaves(g) => q' = q
  BY DEF Leaves
<1>4. JobUser => q' = q
  <2>1. \A r : Moves(r) => q' = q
    BY DEF Moves
  <2>2. CollectionEnds \/ PipelineRuns \/ PipelineEnds \/ TimelineMoves => q' = q
    BY <2>1 DEF CollectionEnds, PipelineRuns, PipelineEnds, TimelineMoves
  <2>3. StatusPoll \/ LogPoll \/ SwitchPage => q' = q
    BY DEF StatusPoll, LogPoll, SwitchPage
  <2>4. activateAnalytics \/ startProcessing \/ reprocess \/ handleCloseIncident => q' = q
    BY <1>1 DEF activateAnalytics, startProcessing, reprocess, handleCloseIncident
  <2> QED
    BY <2>2, <2>3, <2>4 DEF JobUser
<1>5. SearchUser => q' = q
  <2>1. \A g : MovesTo(g) \/ Resets(g) => q' = q
    BY DEF MovesTo, Resets
  <2>2. activeCard \/ clearFilter \/ nextPage \/ prevPage \/ passSearch => q' = q
    BY <2>1 DEF activeCard, clearFilter, nextPage, prevPage, passSearch
  <2>3. AuditTick \/ AuditRefresh \/ clearSelection \/ handleBulkClose \/ openImport \/ closeImport \/ handleBulkImport => q' = q
    BY <1>2 DEF AuditTick, AuditRefresh, clearSelection, handleBulkClose, openImport, closeImport, handleBulkImport
  <2>4. SearchLeave \/ SearchReturn => q' = q
    BY <1>3 DEF SearchLeave, SearchReturn
  <2>5. \A v : statusSelect(v) \/ setActiveType(v) \/ setEventType(v) \/ setSeverity(v) => q' = q
    BY <2>1 DEF statusSelect, setActiveType, setEventType, setSeverity
  <2>6. \A t : setIncidentSearch(t) \/ setTargetId(t) \/ setHitSearch(t) => q' = q
    BY <2>1 DEF setIncidentSearch, setTargetId, setHitSearch
  <2>7. \A r, v : toggleSelect(r) \/ Elsewhere(r, v) => q' = q
    BY <1>2 DEF toggleSelect, Elsewhere
  <2> QED
    BY <2>2, <2>3, <2>4, <2>5, <2>6, <2>7 DEF SearchUser
<1>6. TimelineUser => q' = q
  <2>1. \A g : Turns(g) => q' = q
    BY DEF Turns
  <2>2. StatusTick \/ BuildEnds \/ triggerBuild \/ handleExport \/ importBrowserAnnotations => q' = q
    BY <1>1 DEF StatusTick, BuildEnds, triggerBuild, handleExport, importBrowserAnnotations
  <2>3. toggleHost \/ searchRows \/ clearAll \/ turnPage => q' = q
    BY <2>1 DEF toggleHost, searchRows, clearAll, turnPage
  <2>4. TimelineLeave \/ TimelineReturn => q' = q
    BY <1>3 DEF TimelineLeave, TimelineReturn
  <2>5. \A r : toggleBookmark(r) \/ onRemoveBookmark(r) \/ Colleague(r) => q' = q
    BY <1>1 DEF toggleBookmark, onRemoveBookmark, Colleague
  <2> QED
    BY <2>2, <2>3, <2>4, <2>5 DEF TimelineUser
<1>7. ConsoleUser \/ (\E s \in Sock : ConsoleSocket(s)) => q' = q
  <2>1. \A g, d : Steps(g, d) \/ Happens(g, d) => q' = q
    BY DEF Steps, Happens
  <2>2. connect \/ disconnect \/ sendCommand \/ clearLines => q' = q
    BY Zenon, <2>1 DEF connect, disconnect, sendCommand, clearLines
  <2>3. ConsoleLeave \/ ConsoleReturn => q' = q
    BY DEF ConsoleLeave, ConsoleReturn
  <2>4. RunSync \/ RunSyncEnds \/ PollCommand \/ PollLost \/ PostCommandResult \/ ResultLost => q' = q
    BY <2>1 DEF RunSync, RunSyncEnds, PollCommand, PollLost, PostCommandResult, ResultLost
  <2>5. \A s \in Sock : Opens(s) \/ Refused(s) \/ OnClose(s) \/ Drops(s) \/ OnMessage(s) => q' = q
    BY <2>1 DEF Opens, Refused, OnClose, Drops, OnMessage
  <2>6. \A s \in Sock : Receives(s) \/ Refuses(s) \/ RecvEnds(s) \/ Tells(s) \/ Raises(s) \/ Passes(s) \/ TimesOut(s) => q' = q
    BY Zenon, <2>1 DEF Receives, Refuses, RecvEnds, Tells, Raises, Passes, TimesOut
  <2> QED
    BY <2>2, <2>3, <2>4, <2>5, <2>6 DEF ConsoleUser, ConsoleSocket
<1> QED
  BY <1>4, <1>5, <1>6, <1>7

\* Of the steps of a call, only the answers of the queries and the ends of the
\* mutations write the cache.
LEMMA CallsKeepCache ==
  ASSUME NEW c \in Slot
  PROVE  /\ ServeList(c) \/ JobServed(c) \/ SearchServed(c) \/ TimelineServed(c) => q' = q
         /\ FetchAgain(c) \/ Retries(c) \/ Breaks(c) \/ Unserved(c) \/ Outage(c) => q' = q
         /\ JobContinued(c) => q' = q \/ StatusArrives(c) \/ StatusAbsent(c) \/ StatusFails(c)
         /\ SearchContinued(c) => q' = q \/ RowsArrive(c) \/ q' = MarkRows
         /\ TimelineContinued(c) => q' = q \/ NotesArrive(c) \/ NotesFail(c) \/ q' = Marked
<1>1. \A g, n : Then(c, g, n) => q' = q
  BY DEF Then
<1>2. ServeList(c) \/ JobServed(c) \/ SearchServed(c) \/ TimelineServed(c) => q' = q
  BY DEF ServeList, JobServed, ServeStatus, ServeIncident, ServeLogs, ServeTrigger, TriggerUnqueued, ServeClose, Answers,
         SearchServed, ServeRows, ServeBulk, ServeImport, TimelineServed, ServeTlStatus, ServeTlRows, ServeBuild, RefuseBuild, ServeExport, ServeNote
<1>3. FetchAgain(c) \/ Retries(c) \/ Breaks(c) \/ Unserved(c) \/ Outage(c) => q' = q
  BY DEF FetchAgain, Retries, Breaks, Unserved, Outage
<1>4. JobContinued(c) => q' = q \/ StatusArrives(c) \/ StatusAbsent(c) \/ StatusFails(c)
  <2>1. StatusAgain(c) => q' = q
    BY DEF StatusAgain
  <2>2. IncidentArrives(c) \/ IncidentFails(c) \/ LogsArrive(c) \/ LogsFail(c) => q' = q
    BY <1>1 DEF IncidentArrives, IncidentFails, LogsArrive, LogsFail
  <2>3. ProcessingStarted(c) \/ ProcessingStartFails(c) \/ IncidentClosed(c) \/ CloseFails(c) => q' = q
    BY <1>1 DEF ProcessingStarted, ProcessingStartFails, IncidentClosed, CloseFails
  <2> QED
    BY <2>1, <2>2, <2>3 DEF JobContinued
<1>5. SearchContinued(c) => q' = q \/ RowsArrive(c) \/ q' = MarkRows
  <2>1. RowsAgain(c) \/ RowsFail(c) => q' = q
    BY DEF RowsAgain, RowsFail
  <2>2. PatchDone(c) \/ BulkFails(c) \/ ImportFails(c) => q' = q
    BY <1>1 DEF PatchDone, BulkFails, ImportFails
  <2>3. BulkClosed(c) \/ Imported(c) => q' = MarkRows
    BY DEF BulkClosed, Imported
  <2> QED
    BY <2>1, <2>2, <2>3 DEF SearchContinued
<1>6. TimelineContinued(c) => q' = q \/ NotesArrive(c) \/ NotesFail(c) \/ q' = Marked
  <2>1. \A g : Notes(c, g) => q' = Marked
    BY DEF Notes
  <2>2. TlStatusArrives(c) \/ TlStatusFails(c) \/ TlRowsArrive(c) \/ TlRowsFail(c) => q' = q
    BY <1>1 DEF TlStatusArrives, TlStatusFails, TlRowsArrive, TlRowsFail
  <2>3. BuildBegun(c) \/ BuildRefused(c) \/ ExportEnds(c) \/ NoteFails(c) \/ ImportNext(c) => q' = q
    BY <1>1 DEF BuildBegun, BuildRefused, ExportEnds, NoteFails, ImportNext
  <2>4. NoteSaved(c) \/ ImportEnds(c) \/ ImportBreaks(c) => q' = Marked
    BY <2>1 DEF NoteSaved, ImportEnds, ImportBreaks
  <2> QED
    BY <2>2, <2>3, <2>4 DEF TimelineContinued
<1> QED
  BY <1>2, <1>3, <1>4, <1>5, <1>6

\* Every step that writes the cache is the end of a call.
LEMMA CacheWriter ==
  ASSUME [IncidentNext]_frame, q' # q
  PROVE  \E c \in Slot : JobContinued(c) \/ SearchContinued(c) \/ TimelineContinued(c)
BY UsersKeepCache, CallsKeepCache DEF IncidentNext, frame

\* The hub and the processing status.
LEMMA JobNeverOlder == page \in JobPages /\ JobInv /\ [IncidentNext]_frame => q'.ver >= q.ver
<1> SUFFICES ASSUME page \in JobPages, JobInv, [IncidentNext]_frame PROVE q'.ver >= q.ver
  OBVIOUS
<1>1. q \in JobQs /\ net \in [Slot -> JobCalls] /\ StatusOnce(q, db, net)
  BY JobWaits
<1>2. q.ver \in Nat /\ \A b \in BOOLEAN : [q EXCEPT !.err = b].ver = q.ver
  BY <1>1 DEF JobQs
<1>3. CASE q' = q
  BY <1>2, <1>3
<1>4. CASE q' # q
  <2>1. PICK c \in Slot : JobContinued(c) \/ SearchContinued(c) \/ TimelineContinued(c)
    BY <1>4, CacheWriter
  <2>2. net[c].kind \in {"none"} \cup JobKinds
    BY <1>1, JobCallIs
  <2>3. StatusArrives(c) \/ StatusAbsent(c) \/ StatusFails(c)
    BY <1>4, <2>1, <2>2, CallPage, CallsKeepCache DEF Waiting, JobKinds, SearchKinds, TimelineKinds
  <2>4. CASE StatusArrives(c)
    <3>1. net[c].kind = "status" /\ net[c].st = "answered" /\ net[c].ok
      BY <2>4 DEF StatusArrives, Resolved
    <3>2. q.ver <= net[c].res.ver
      BY <1>1, <3>1 DEF StatusOnce
    <3>3. net[c].res.ver \in Nat
      BY <1>1, <3>1, JobCallIs DEF StatusCalls, CallsOf, JobResults
    <3>4. q'.ver = net[c].res.ver
      BY <1>1, <2>4 DEF StatusArrives, Sees, JobQs
    <3> QED
      BY <1>2, <3>2, <3>3, <3>4
  <2>5. CASE StatusAbsent(c) \/ StatusFails(c)
    <3>1. q'.ver = q.ver
      BY <1>1, <2>5 DEF StatusAbsent, StatusFails, Sees, JobQs
    <3> QED
      BY <1>2, <3>1
  <2> QED
    BY <2>3, <2>4, <2>5
<1> QED
  BY <1>3, <1>4

\* The timeline.
LEMMA TimelineNeverOlder == page = "timeline" /\ TimelineInv /\ [IncidentNext]_frame => q'.ver >= q.ver
<1> SUFFICES ASSUME page = "timeline", TimelineInv, [IncidentNext]_frame PROVE q'.ver >= q.ver
  OBVIOUS
<1>1. q \in TimelineQs /\ net \in [Slot -> TimelineCalls] /\ Listed(q, db, net)
  BY TimelineParts
<1>2. q.ver \in Nat
  BY <1>1, TimelineNumbers
<1>3. CASE q' = q
  BY <1>2, <1>3
<1>4. CASE q' # q
  <2>1. PICK c \in Slot : JobContinued(c) \/ SearchContinued(c) \/ TimelineContinued(c)
    BY <1>4, CacheWriter
  <2>2. net[c].kind \in {"none", "list"} \cup TimelineKinds
    BY <1>1, TimelineCallIs
  <2>3. NotesArrive(c) \/ NotesFail(c) \/ q' = Marked
    BY <1>4, <2>1, <2>2, CallPage, CallsKeepCache DEF Waiting, JobKinds, SearchKinds, TimelineKinds
  <2>4. CASE NotesArrive(c)
    <3>1. net[c].kind = "list" /\ net[c].st = "answered" /\ net[c].ok
      BY <2>4 DEF NotesArrive, Resolved
    <3>2. q.ver <= net[c].res.ver
      BY <1>1, <3>1 DEF Listed
    <3>3. net[c].res.ver \in Nat
      BY <1>1, <3>1, TimelineCallIs DEF ListCalls, CallsOf, NoteLists
    <3>4. q'.ver = net[c].res.ver
      BY <1>1, <2>4 DEF NotesArrive, Arrived, TimelineQs
    <3> QED
      BY <1>2, <3>2, <3>3, <3>4
  <2>5. CASE NotesFail(c) \/ q' = Marked
    <3>1. q'.ver = q.ver
      BY <1>1, <2>5 DEF NotesFail, Marked, TimelineQs
    <3> QED
      BY <1>2, <3>1
  <2> QED
    BY <2>3, <2>4, <2>5
<1> QED
  BY <1>3, <1>4

\* The searches, key by key.
LEMMA SearchNeverOlder ==
  page \in SearchPage /\ SearchInv /\ [IncidentNext]_frame
    => q'.ver >= q.ver /\ \A k \in ShownKeys : q'.rows[k].ver >= q.rows[k].ver
<1> SUFFICES ASSUME page \in SearchPage, SearchInv, [IncidentNext]_frame
             PROVE  q'.ver >= q.ver /\ \A k \in ShownKeys : q'.rows[k].ver >= q.rows[k].ver
  OBVIOUS
<1>1. q \in SearchQs /\ net \in [Slot -> SearchCalls] /\ Fetches(q, db, net)
  BY SearchParts
<1>2. q.ver = 0 /\ q.rows \in [ShownKeys -> Entries] /\ \A e \in Entries : e.ver \in Nat
  BY <1>1 DEF SearchQs, Entries
<1>3. CASE q' = q
  BY <1>2, <1>3
<1>4. CASE q' # q
  <2>1. PICK c \in Slot : JobContinued(c) \/ SearchContinued(c) \/ TimelineContinued(c)
    BY <1>4, CacheWriter
  <2>2. net[c].kind \in {"none"} \cup SearchKinds
    BY <1>1, SearchCallIs
  <2>3. RowsArrive(c) \/ q' = MarkRows
    BY <1>4, <2>1, <2>2, CallPage, CallsKeepCache DEF Waiting, JobKinds, SearchKinds, TimelineKinds
  <2>4. CASE RowsArrive(c)
    <3> DEFINE j == net[c].arg.key
               e == net[c].res
    <3>1. net[c].kind = "rows" /\ net[c].st = "answered" /\ net[c].ok /\ q' = [q EXCEPT !.rows[j] = e]
      BY <2>4 DEF RowsArrive, Resolved
    <3>2. q.rows[j].ver <= e.ver
      BY <1>1, <3>1 DEF Fetches
    <3>3. e \in Entries /\ j \in ShownKeys
      BY <1>1, <3>1, SearchArgs
    <3> HIDE DEF j, e
    <3>4. q'.ver = q.ver /\ q'.rows = [q.rows EXCEPT ![j] = e]
      BY <1>1, <3>1 DEF SearchQs
    <3> QED
      BY <1>2, <3>2, <3>3, <3>4
  <2>5. CASE q' = MarkRows
    <3>1. q'.ver = q.ver /\ q'.rows = [k \in ShownKeys |-> [q.rows[k] EXCEPT !.inv = @ \/ q.rows[k].have]]
      BY <1>1, <2>5 DEF MarkRows, SearchQs
    <3>2. \A k \in ShownKeys : q'.rows[k].ver = q.rows[k].ver
      BY <1>2, <3>1 DEF Entries
    <3> QED
      BY <1>2, <3>1, <3>2
  <2> QED
    BY <2>3, <2>4, <2>5
<1> QED
  BY <1>3, <1>4

\* The console has no query.
Cacheless == page = "console" => q = NoData

\* Its cache stays as it was.
LEMMA ConsoleCache == page = "console" /\ Quiet /\ [IncidentNext]_frame => q' = q
<1> SUFFICES ASSUME page = "console", Quiet, [IncidentNext]_frame, q' # q PROVE FALSE
  OBVIOUS
<1>1. PICK c \in Slot : JobContinued(c) \/ SearchContinued(c) \/ TimelineContinued(c)
  BY CacheWriter
<1>2. net[c].st = "idle"
  BY DEF Quiet, NoCall
<1> QED
  BY <1>1, <1>2, CallPage DEF Waiting

\* It never has anything in it.
LEMMA CachelessHolds == IncidentSpec => []Cacheless
<1>1. IncidentInit => Cacheless
  BY DEF IncidentInit, Cacheless, SearchInit, SearchPage
<1>2. ConsolePage /\ Cacheless /\ [IncidentNext]_frame => Cacheless'
  <2> SUFFICES ASSUME ConsolePage, Cacheless, [IncidentNext]_frame, page' = "console" PROVE q' = NoData
    BY DEF Cacheless
  <2>1. page = "console"
    BY PageStays DEF JobPages
  <2> QED
    BY <2>1, ConsoleCache DEF ConsolePage, Cacheless
<1> QED
  BY <1>1, <1>2, ConsolePageHolds, PTL DEF IncidentSpec

\* The pages are those of the four components.
KnownPage == page \in JobPages \cup SearchPage \cup {"timeline", "console"}

\* No step leads elsewhere.
LEMMA KnownPageHolds == IncidentSpec => []KnownPage
<1>1. IncidentInit => KnownPage
  BY DEF IncidentInit, JobInit, SearchInit, TimelineInit, ConsoleInit, KnownPage
<1>2. KnownPage /\ [IncidentNext]_frame => KnownPage'
  BY PageStays DEF KnownPage
<1> QED
  BY <1>1, <1>2, PTL DEF IncidentSpec

\* useQuery with cancelRefetch and useAdaptivePolling: pollers, invalidations,
\* refresh buttons and retries fetch a query side by side, and no step replaces
\* what it shows by something older, on any page and under any key.
THEOREM NeverOlderHolds == IncidentSpec => NeverOlder
<1> DEFINE Step == /\ q'.ver >= q.ver
                   /\ page \in SearchPage => \A k \in ShownKeys : q'.rows[k].ver >= q.rows[k].ver
<1>1. /\ JobPage /\ SearchHolds /\ TimelineHolds /\ ConsolePage /\ Cacheless /\ KnownPage
      /\ [IncidentNext]_frame
      => Step
  <2> SUFFICES ASSUME JobPage, SearchHolds, TimelineHolds, ConsolePage, Cacheless, KnownPage, [IncidentNext]_frame PROVE Step
    OBVIOUS
  <2>1. CASE page \in JobPages
    BY <2>1, JobNeverOlder DEF JobPage, JobPages, SearchPage
  <2>2. CASE page \in SearchPage
    BY <2>2, SearchNeverOlder DEF SearchHolds
  <2>3. CASE page = "timeline"
    BY <2>3, TimelineNeverOlder DEF TimelineHolds, SearchPage
  <2>4. CASE page = "console"
    <3>1. q' = q /\ q = NoData
      BY <2>4, ConsoleCache DEF ConsolePage, Cacheless
    <3>2. q.ver = 0
      BY <3>1 DEF NoData
    <3> QED
      BY <2>4, <3>1, <3>2 DEF SearchPage
  <2> QED
    BY <2>1, <2>2, <2>3, <2>4 DEF KnownPage
<1>2. JobPage /\ SearchHolds /\ TimelineHolds /\ ConsolePage /\ Cacheless /\ KnownPage /\ [IncidentNext]_frame => [Step]_frame
  BY <1>1
<1> QED
  BY <1>2, JobPageHolds, SearchPageHolds, TimelinePageHolds, ConsolePageHolds, CachelessHolds, KnownPageHolds, PTL
     DEF IncidentSpec, NeverOlder
=============================================================================
