--------------------------- MODULE ChainOfCustody ---------------------------
(***************************************************************************)
(* The chain-of-custody table and create_entry, called inside the          *)
(* transactions of many handlers that run concurrently under READ          *)
(* COMMITTED.  A request appends its entries one after the other:          *)
(* look for the id, SELECT the last entry of the incident FOR UPDATE,      *)
(* INSERT its successor.  SELECT ... FOR UPDATE chooses the row from the   *)
(* statement's snapshot and then waits for its lock; it returns that row   *)
(* even if an entry was appended meanwhile, since the row itself did not   *)
(* change.  What keeps the chain linear is the unique constraint on        *)
(* (incident_id, sequence).                                                *)
(***************************************************************************)
EXTENDS Naturals, Sequences, FiniteSets

CONSTANTS
  Incident,       \* incident ids
  Request,        \* requests and tasks that record custody events
  Plan,           \* per request: the entries it records, in order
  None,           \* no row, no hash
  Hash(_,_,_,_),  \* compute_chain_hash(incident, sequence, content, previous)
  Faults          \* a handler may fail for other reasons

\* An entry to record has an id, an incident and its content ("what").  A strict
\* one fails the request when it cannot be recorded; the others are recorded
\* inside try/except.
ASSUME CustodyAssumption ==
  /\ \A r \in Request :
       /\ Len(Plan[r]) \in Nat
       /\ \A k \in 1 .. Len(Plan[r]) : /\ Plan[r][k].incident \in Incident
                                       /\ Plan[r][k].strict \in BOOLEAN
  /\ Faults \in BOOLEAN

VARIABLES
  rows,    \* chain_of_custody_entries: the committed rows
  own,     \* per request: the rows it inserted and has not committed
  held,    \* per request: the rows it locked
  last,    \* per request: the row its SELECT returned
  step,    \* per request: the entry it is recording
  pc       \* per request: the statement it executes next

vars == <<rows, own, held, last, step, pc>>

-----------------------------------------------------------------------------
Open(r) == pc[r] \notin {"committed", "aborted"}
Current(r) == Plan[r][step[r]]
HasEntry(r) == step[r] <= Len(Plan[r])

\* What r's session sees: committed rows and its own.
Visible(r) == rows \cup own[r]

EntriesOf(S, i) == {e \in S : e.incident = i}

\* ORDER BY sequence DESC LIMIT 1
IsLast(e, S, i) ==
  /\ e \in EntriesOf(S, i)
  /\ \A f \in EntriesOf(S, i) : f.seq <= e.seq

NextSequence(l) == IF l = None THEN 1 ELSE l.seq + 1
PreviousHash(l) == IF l = None THEN None ELSE l.hash

\* Mutant: the hash does not cover the previous entry.
NewEntryUnlinked(p, l) ==
  [id |-> p.id, incident |-> p.incident, seq |-> NextSequence(l), what |-> p.what,
   prev |-> PreviousHash(l), hash |-> Hash(p.incident, NextSequence(l), p.what, None)]

\* The row create_entry builds from the payload and the last entry.
NewEntry(p, l) ==
  [id       |-> p.id,
   incident |-> p.incident,
   seq      |-> NextSequence(l),
   what     |-> p.what,
   prev     |-> PreviousHash(l),
   hash     |-> Hash(p.incident, NextSequence(l), p.what, PreviousHash(l))]

\* Mutant: a table without uq_coc_incident_sequence.
ClashOnId(e, S) == \E f \in S : f.id = e.id

\* The primary key and uq_coc_incident_sequence.
Clash(e, S) ==
  \E f \in S : f.id = e.id \/ (f.incident = e.incident /\ f.seq = e.seq)

Pending(r) == UNION {own[q] : q \in Request \ {r}}

Init ==
  /\ rows = {}
  /\ own = [r \in Request |-> {}]
  /\ held = [r \in Request |-> {}]
  /\ last = [r \in Request |-> None]
  /\ step = [r \in Request |-> 1]
  /\ pc = [r \in Request |-> "check"]

\* ROLLBACK: the rows r inserted are gone and its locks released.
Abort(r) ==
  /\ pc' = [pc EXCEPT ![r] = "aborted"]
  /\ own' = [own EXCEPT ![r] = {}]
  /\ held' = [held EXCEPT ![r] = {}]
  /\ UNCHANGED <<rows, last, step>>

-----------------------------------------------------------------------------
(* create_entry, statement by statement.                                   *)

Known(r) == \E e \in Visible(r) : e.id = Current(r).id

CheckId(r) ==
  /\ pc[r] = "check" /\ HasEntry(r)
  /\ ~Known(r)
  /\ pc' = [pc EXCEPT ![r] = "select"]
  /\ UNCHANGED <<rows, own, held, last, step>>

\* ValueError from create_entry, answered 409 or 500.
RefuseDuplicate(r) ==
  /\ pc[r] = "check" /\ HasEntry(r)
  /\ Known(r) /\ Current(r).strict
  /\ Abort(r)

\* Mutant: the swallowed error is retried instead of skipped.
RetryDuplicate(r) ==
  /\ pc[r] = "check" /\ HasEntry(r)
  /\ Known(r) /\ ~Current(r).strict
  /\ UNCHANGED vars

\* ValueError caught and logged by the caller, which goes on.
SwallowDuplicate(r) ==
  /\ pc[r] = "check" /\ HasEntry(r)
  /\ Known(r) /\ ~Current(r).strict
  /\ step' = [step EXCEPT ![r] = @ + 1]
  /\ UNCHANGED <<rows, own, held, last, pc>>

SelectLast(r) ==
  /\ pc[r] = "select"
  /\ \E e \in Visible(r) \cup {None} :
       /\ IF EntriesOf(Visible(r), Current(r).incident) = {} THEN e = None
          ELSE IsLast(e, Visible(r), Current(r).incident)
       /\ last' = [last EXCEPT ![r] = e]
  /\ pc' = [pc EXCEPT ![r] = "lock"]
  /\ UNCHANGED <<rows, own, held, step>>

\* Waits while another open request holds the row.
LockLast(r) ==
  /\ pc[r] = "lock"
  /\ \A q \in Request \ {r} : last[r] \notin held[q]
  /\ held' = [held EXCEPT ![r] = IF last[r] = None THEN @ ELSE @ \cup {last[r]}]
  /\ pc' = [pc EXCEPT ![r] = "insert"]
  /\ UNCHANGED <<rows, own, last, step>>

\* Mutant: every entry is committed as soon as it is written.
InsertAutocommit(r) ==
  LET e == NewEntry(Current(r), last[r])
  IN /\ pc[r] = "insert"
     /\ ~Clash(e, Visible(r)) /\ ~Clash(e, Pending(r))
     /\ rows' = rows \cup {e}
     /\ step' = [step EXCEPT ![r] = @ + 1]
     /\ pc' = [pc EXCEPT ![r] = "check"]
     /\ UNCHANGED <<own, held, last>>

\* Waits while another open request inserted the same key.
Insert(r) ==
  LET e == NewEntry(Current(r), last[r])
  IN /\ pc[r] = "insert"
     /\ ~Clash(e, Visible(r)) /\ ~Clash(e, Pending(r))
     /\ own' = [own EXCEPT ![r] = @ \cup {e}]
     /\ step' = [step EXCEPT ![r] = @ + 1]
     /\ pc' = [pc EXCEPT ![r] = "check"]
     /\ UNCHANGED <<rows, held, last>>

\* IntegrityError in the flush.  Even where the caller swallows it the session
\* refuses every later statement and the commit, so the request rolls back.
InsertFails(r) ==
  /\ pc[r] = "insert"
  /\ Clash(NewEntry(Current(r), last[r]), Visible(r))
  /\ Abort(r)

Commit(r) ==
  /\ pc[r] = "check" /\ ~HasEntry(r)
  /\ rows' = rows \cup own[r]
  /\ own' = [own EXCEPT ![r] = {}]
  /\ held' = [held EXCEPT ![r] = {}]
  /\ pc' = [pc EXCEPT ![r] = "committed"]
  /\ UNCHANGED <<last, step>>

\* The handler fails elsewhere, or the backend dies.
Fail(r) ==
  /\ Faults
  /\ Open(r)
  /\ Abort(r)

-----------------------------------------------------------------------------
Step(r) ==
  \/ CheckId(r) \/ RefuseDuplicate(r) \/ SwallowDuplicate(r)
  \/ SelectLast(r) \/ LockLast(r) \/ Insert(r) \/ InsertFails(r) \/ Commit(r)

\* Every request was answered; without it TLC would call that a deadlock.
AllEnded ==
  /\ \A r \in Request : ~Open(r)
  /\ UNCHANGED vars

Next == (\E r \in Request : Step(r) \/ Fail(r)) \/ AllEnded

Spec == Init /\ [][Next]_vars

\* A statement that can run does run: PostgreSQL grants a lock as soon as its
\* holder ends, and the event loop resumes the coroutine that waited for it.
FairSpec == Spec /\ \A r \in Request : WF_vars(Step(r))

-----------------------------------------------------------------------------
(* Properties.                                                             *)

StatementNames == {"check", "select", "lock", "insert", "committed", "aborted"}

\* Every row is a full entry, and every request is at a statement.
TypeOK ==
  /\ \A e \in rows \cup UNION {own[r] : r \in Request} :
       /\ DOMAIN e = {"id", "incident", "seq", "what", "prev", "hash"}
       /\ e.incident \in Incident /\ e.seq \in Nat \ {0}
  /\ DOMAIN own = Request /\ DOMAIN held = Request /\ DOMAIN last = Request
  /\ step \in [Request -> Nat \ {0}]
  /\ pc \in [Request -> StatementNames]

\* The committed entries of an incident form one chain: no two share a
\* sequence number, each but the first continues the hash of the one before,
\* and every hash covers the entry's own content (crud/chain_of_custody.py
\* 40-74 with models/chain_of_custody.py 9).
Unforked(S) ==
  \A e, f \in S : e.incident = f.incident /\ e.seq = f.seq => e = f

LinkedIn(e, S) ==
  /\ e.hash = Hash(e.incident, e.seq, e.what, e.prev)
  /\ \/ e.seq = 1 /\ e.prev = None
     \/ \E f \in S : f.incident = e.incident /\ f.seq + 1 = e.seq /\ e.prev = f.hash

ChainIntact == Unforked(rows) /\ \A e \in rows : LinkedIn(e, rows)

\* verify_entries, for the entries in the order list_entries returns them.
VerifyEntries(entries) ==
  \A k \in DOMAIN entries :
    LET previous == IF k = 1 THEN None ELSE entries[k - 1].hash
    IN /\ entries[k].prev = previous
       /\ entries[k].hash = Hash(entries[k].incident, entries[k].seq, entries[k].what, previous)

\* ORDER BY sequence; rows with equal sequence come in any order.
ListEntries(S) ==
  {s \in [1 .. Cardinality(S) -> S] :
     /\ {s[k] : k \in DOMAIN s} = S
     /\ \A k \in DOMAIN s : k > 1 => s[k - 1].seq <= s[k].seq}

\* GET /chain-of-custody?incident_id=i never answers 409 for a chain that only
\* the service wrote, whatever requests ran concurrently. Without the
\* parameter the endpoint mixes the chains of all incidents: not meant here.
VerifiedOnRead ==
  \A i \in Incident : \A s \in ListEntries(EntriesOf(rows, i)) : VerifyEntries(s)

\* Every request is answered: nobody waits for ever on a row lock or on a key.
EveryRequestEnds == \A r \in Request : <>~Open(r)

\* The rows of an incident read as the log CustodyLog promises.
LogOf(i) ==
  [k \in 1 .. Cardinality(EntriesOf(rows, i)) |->
     (CHOOSE e \in EntriesOf(rows, i) : e.seq = k).what]

Promise == INSTANCE CustodyLog
  WITH log <- [i \in Incident |-> LogOf(i)], ended <- {r \in Request : ~Open(r)}

\* The table implements the append-only log: each request appends a contiguous
\* block to the end or nothing, and no committed entry is ever lost or moved.
\* An entry whose duplicate error the handler swallows is missing in its block.
ImplementsCustodyLog == Promise!LogSpec

=============================================================================
