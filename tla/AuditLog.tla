------------------------------ MODULE AuditLog ------------------------------
(***************************************************************************)
(* The audit log: record_event chains each event to the latest entry, by   *)
(* timestamp, inside the transaction of the request it reports on.         *)
(* Requests run concurrently under READ COMMITTED.  Unlike the chain of    *)
(* custody the table has no sequence and no unique constraint, and the     *)
(* timestamp is taken before the latest entry is read.  Old entries are    *)
(* pruned whenever the log is listed.                                      *)
(***************************************************************************)
EXTENDS Naturals, FiniteSets

CONSTANTS
  Request,      \* sessions whose requests record events
  NoEntry,      \* no row, no hash
  Hash(_,_),    \* _hash_payload(timestamp and content, previous_hash)
  MaxEvents,    \* bound: events recorded in one behaviour
  RequestsFail  \* a request may fail and roll back

ASSUME AuditAssumption == MaxEvents \in Nat /\ RequestsFail \in BOOLEAN

VARIABLES
  entries,  \* audit_logs: the committed rows
  clock,    \* the backend's clock
  own,      \* per request: rows inserted and not committed
  held,     \* per request: rows it locked
  stamp,    \* per request: the timestamp of the event being recorded
  latest,   \* per request: what get_latest_entry returned
  at        \* per request: the statement it executes next

auditVars == <<entries, clock, own, held, stamp, latest, at>>

AuditStatement == {"handler", "select", "lock", "insert"}

\* Every row and every request is well formed.
AuditTypeOK ==
  /\ \A e \in entries \cup UNION {own[r] : r \in Request} :
       DOMAIN e = {"time", "prev", "hash"} /\ e.time \in Nat
  /\ clock \in Nat
  /\ DOMAIN own = Request /\ DOMAIN held = Request /\ DOMAIN latest = Request
  /\ stamp \in [Request -> Nat]
  /\ at \in [Request -> AuditStatement]

AuditInit ==
  /\ entries = {} /\ clock = 0
  /\ own = [r \in Request |-> {}]
  /\ held = [r \in Request |-> {}]
  /\ stamp = [r \in Request |-> 0]
  /\ latest = [r \in Request |-> NoEntry]
  /\ at = [r \in Request |-> "handler"]

-----------------------------------------------------------------------------
(* record_event.                                                           *)

\* timestamp = _utc_now(), before the log is read.  Ticks stand for the
\* microseconds of the clock: two events never share one.
TakeTimestamp(r) ==
  /\ at[r] = "handler" /\ clock < MaxEvents
  /\ clock' = clock + 1
  /\ stamp' = [stamp EXCEPT ![r] = clock]
  /\ at' = [at EXCEPT ![r] = "select"]
  /\ UNCHANGED <<entries, own, held, latest>>

Visible(r) == entries \cup own[r]

\* Mutant: LIMIT 1 without ORDER BY.
IsAnyRow(e, S) == e \in S

IsLatest(e, S) == e \in S /\ \A f \in S : f.time <= e.time

\* get_latest_entry chooses the row from the statement's snapshot ...
SelectLatest(r) ==
  /\ at[r] = "select"
  /\ \E e \in Visible(r) \cup {NoEntry} :
       /\ IF Visible(r) = {} THEN e = NoEntry ELSE IsLatest(e, Visible(r))
       /\ latest' = [latest EXCEPT ![r] = e]
  /\ at' = [at EXCEPT ![r] = "lock"]
  /\ UNCHANGED <<entries, clock, own, held, stamp>>

\* ... and returns it once no other request holds it.
LockLatest(r) ==
  /\ at[r] = "lock"
  /\ latest[r] \in Visible(r) \cup {NoEntry}
  /\ \A q \in Request \ {r} : latest[r] \notin held[q]
  /\ held' = [held EXCEPT ![r] = IF latest[r] = NoEntry THEN @ ELSE @ \cup {latest[r]}]
  /\ at' = [at EXCEPT ![r] = "insert"]
  /\ UNCHANGED <<entries, clock, own, stamp, latest>>

\* The row was pruned before its lock was granted: the scan goes on.
LatestIsGone(r) ==
  /\ at[r] = "lock"
  /\ latest[r] \notin Visible(r) \cup {NoEntry}
  /\ at' = [at EXCEPT ![r] = "select"]
  /\ UNCHANGED <<entries, clock, own, held, stamp, latest>>

NewEntry(t, l) ==
  LET prev == IF l = NoEntry THEN NoEntry ELSE l.hash
  IN [time |-> t, prev |-> prev, hash |-> Hash(t, prev)]

InsertEntry(r) ==
  /\ at[r] = "insert"
  /\ own' = [own EXCEPT ![r] = @ \cup {NewEntry(stamp[r], latest[r])}]
  /\ at' = [at EXCEPT ![r] = "handler"]
  /\ UNCHANGED <<entries, clock, held, stamp, latest>>

\* The request ends: commit, or rollback with its events.
End(r, kept) ==
  /\ entries' = entries \cup kept
  /\ own' = [own EXCEPT ![r] = {}]
  /\ held' = [held EXCEPT ![r] = {}]
  /\ at' = [at EXCEPT ![r] = "handler"]
  /\ UNCHANGED <<clock, stamp, latest>>

CommitEvents(r) ==
  /\ at[r] = "handler" /\ own[r] # {}
  /\ End(r, own[r])

RollbackEvents(r) ==
  /\ RequestsFail
  /\ own[r] # {} \/ held[r] # {}
  /\ End(r, {})

Expired(e, cutoff) == e.time < cutoff

\* prune_old_entries; a DELETE waits for rows that others have locked.
Prune(cutoff) ==
  LET old == {e \in entries : Expired(e, cutoff)}
  IN /\ old # {}
     /\ \A r \in Request : held[r] \cap old = {}
     /\ entries' = entries \ old
     /\ UNCHANGED <<clock, own, held, stamp, latest, at>>

-----------------------------------------------------------------------------
AuditStep(r) ==
  \/ TakeTimestamp(r) \/ SelectLatest(r) \/ LockLatest(r) \/ LatestIsGone(r)
  \/ InsertEntry(r) \/ CommitEvents(r) \/ RollbackEvents(r)

\* The bound is reached and every request has ended.
Quiescent ==
  /\ clock = MaxEvents
  /\ \A r \in Request : at[r] = "handler" /\ own[r] = {}
  /\ UNCHANGED auditVars

AuditNext ==
  \/ \E r \in Request : AuditStep(r)
  \/ \E cutoff \in 1 .. clock : Prune(cutoff)
  \/ Quiescent

AuditSpec == AuditInit /\ [][AuditNext]_auditVars

-----------------------------------------------------------------------------
(* Properties.                                                             *)

\* Requests that wait for each other's rows: each for one that another holds.
CircularWait(C) ==
  /\ C # {}
  /\ \A r \in C : /\ at[r] = "lock"
                  /\ \E q \in C \ {r} : latest[r] \in held[q]

\* Requests that record several events keep the row of the first locked while
\* they ask for that of the next (audit_log.py 9-13), in the middle of handlers
\* that hold other rows too.  They never wait for each other in a circle,
\* because each asks for rows in the order of their timestamps: whatever was
\* committed, rolled back or pruned in between, the latest entry is never older
\* than one the request holds.
NoCircularWait == \A C \in SUBSET Request : ~CircularWait(C)

=============================================================================
