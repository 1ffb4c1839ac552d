---------------------------- MODULE RecordsProofs ----------------------------
(***************************************************************************)
(* What is kept of a collection and must not change behind its readers:    *)
(* the evidence of a job and the audit log.                                *)
(***************************************************************************)
EXTENDS EvidenceVault, AuditLog, WellFoundedInduction, TLAPS

-----------------------------------------------------------------------------
(* The safety properties of EvidenceVault, for any number of uploads and   *)
(* ingest tasks.  The inductive invariant adds to the type invariant that  *)
(* an upload about to commit has written the marker, and that the primary  *)
(* key of the folder admits one insert at a time and none after a commit.  *)

\* An upload writes the marker before it commits.
MarkedFirst == \A p \in Upload : pc[p] = "commit" => marker

\* A task past its commit, and an upload at its marker, are told apart.
Phases ==
  /\ \A p \in Upload : pc[p] \notin {"pipeline", "retry"}
  /\ \A p \in Ingest : pc[p] # "cleanup"

\* One open insert of the folder row, and none beside a committed one.
OneInsert ==
  /\ \A p, q \in Writer : Inserting(p) /\ Inserting(q) => p = q
  /\ \A p \in Writer : Inserting(p) => folder = None

VaultInv == TypeOK /\ LockedWhenCommitted /\ MarkedFirst /\ Phases /\ OneInsert

\* The invariant holds of an empty vault.
LEMMA InitInv == Init => VaultInv
  BY VaultAssumption
     DEF Init, VaultInv, TypeOK, LockedWhenCommitted, MarkedFirst, Phases,
         OneInsert, Inserting, Statement, File, Writer

\* Every statement of a writer keeps the invariant.
LEMMA StepInv == ASSUME VaultInv, NEW p \in Writer, Step(p) PROVE VaultInv'
<1> USE VaultAssumption DEF Writer, VaultInv, Goto, disk, rows
<1>1. CASE BeginUpload(p)
  <2>1. TypeOK' BY <1>1 DEF TypeOK, Statement, File, BeginUpload
  <2>2. LockedWhenCommitted' /\ MarkedFirst' /\ Phases'
    BY <1>1 DEF TypeOK, LockedWhenCommitted, MarkedFirst, Phases, BeginUpload
  <2>3. OneInsert' BY <1>1 DEF TypeOK, OneInsert, Inserting, Phases, BeginUpload
  <2> QED BY <2>1, <2>2, <2>3
<1>2. CASE BeginIngest(p)
  <2>1. TypeOK' BY <1>2 DEF TypeOK, Statement, File, BeginIngest
  <2>2. LockedWhenCommitted' /\ MarkedFirst' /\ Phases'
    BY <1>2 DEF TypeOK, LockedWhenCommitted, MarkedFirst, Phases, BeginIngest
  <2>3. OneInsert' BY <1>2 DEF TypeOK, OneInsert, Inserting, Phases, BeginIngest
  <2> QED BY <2>1, <2>2, <2>3
<1>3. CASE SaveArchive(p)
  <2>1. TypeOK' BY <1>3 DEF TypeOK, Statement, File, SaveArchive
  <2>2. LockedWhenCommitted' /\ MarkedFirst' /\ Phases'
    BY <1>3 DEF TypeOK, LockedWhenCommitted, MarkedFirst, Phases, SaveArchive
  <2>3. OneInsert' BY <1>3 DEF TypeOK, OneInsert, Inserting, Phases, SaveArchive
  <2> QED BY <2>1, <2>2, <2>3
<1>4. CASE Extract(p)
  <2>1. TypeOK' BY <1>4 DEF TypeOK, Statement, File, Extract
  <2>2. LockedWhenCommitted' /\ MarkedFirst' /\ Phases'
    BY <1>4 DEF TypeOK, LockedWhenCommitted, MarkedFirst, Phases, Extract
  <2>3. OneInsert' BY <1>4 DEF TypeOK, OneInsert, Inserting, Phases, Extract
  <2> QED BY <2>1, <2>2, <2>3
<1>5. CASE WriteHashManifest(p)
  <2>1. TypeOK' BY <1>5 DEF TypeOK, Statement, File, WriteHashManifest
  <2>2. LockedWhenCommitted' /\ MarkedFirst' /\ Phases'
    BY <1>5 DEF TypeOK, LockedWhenCommitted, MarkedFirst, Phases, WriteHashManifest
  <2>3. OneInsert' BY <1>5 DEF TypeOK, OneInsert, Inserting, Phases, WriteHashManifest
  <2> QED BY <2>1, <2>2, <2>3
<1>6. CASE CreateFolder(p)
  <2>1. TypeOK' BY <1>6 DEF TypeOK, Statement, File, CreateFolder
  <2>2. LockedWhenCommitted' /\ MarkedFirst' /\ Phases'
    BY <1>6 DEF TypeOK, LockedWhenCommitted, MarkedFirst, Phases, CreateFolder
  <2>3. OneInsert' BY <1>6 DEF TypeOK, OneInsert, Inserting, Phases, CreateFolder
  <2> QED BY <2>1, <2>2, <2>3
<1>7. CASE CreateItems(p)
  <2>1. TypeOK' BY <1>7 DEF TypeOK, Statement, File, CreateItems
  <2>2. LockedWhenCommitted' /\ MarkedFirst' /\ Phases'
    BY <1>7 DEF TypeOK, LockedWhenCommitted, MarkedFirst, Phases, CreateItems
  <2>3. OneInsert' BY <1>7 DEF TypeOK, OneInsert, Inserting, Phases, CreateItems
  <2> QED BY <2>1, <2>2, <2>3
<1>8. CASE WriteLockMarker(p)
  <2>1. TypeOK' BY <1>8 DEF TypeOK, Statement, File, WriteLockMarker
  <2>2. LockedWhenCommitted' /\ MarkedFirst' /\ Phases'
    BY <1>8 DEF TypeOK, LockedWhenCommitted, MarkedFirst, Phases, WriteLockMarker
  <2>3. OneInsert' BY <1>8 DEF TypeOK, OneInsert, Inserting, Phases, WriteLockMarker
  <2> QED BY <2>1, <2>2, <2>3
<1>9. CASE Commit(p)
  <2>1. TypeOK' BY <1>9 DEF TypeOK, Statement, File, Commit
  <2>2. LockedWhenCommitted' /\ MarkedFirst' /\ Phases'
    BY <1>9 DEF TypeOK, LockedWhenCommitted, MarkedFirst, Phases, Commit
  <2>3. OneInsert' BY <1>9 DEF TypeOK, OneInsert, Inserting, Phases, Commit
  <2> QED BY <2>1, <2>2, <2>3
<1>10. CASE SaveFails(p)
  <2>1. TypeOK' BY <1>10 DEF TypeOK, Statement, File, SaveFails, Rollback
  <2>2. LockedWhenCommitted' /\ MarkedFirst' /\ Phases'
    BY <1>10 DEF TypeOK, LockedWhenCommitted, MarkedFirst, Phases, SaveFails, Rollback
  <2>3. OneInsert' BY <1>10 DEF TypeOK, OneInsert, Inserting, Phases, SaveFails, Rollback
  <2> QED BY <2>1, <2>2, <2>3
<1>11. CASE UploadFails(p)
  <2>1. TypeOK' BY <1>11 DEF TypeOK, Statement, File, UploadFails, Rollback
  <2>2. LockedWhenCommitted' /\ MarkedFirst' /\ Phases'
    BY <1>11 DEF TypeOK, LockedWhenCommitted, MarkedFirst, Phases, UploadFails, Rollback
  <2>3. OneInsert' BY <1>11 DEF TypeOK, OneInsert, Inserting, Phases, UploadFails, Rollback
  <2> QED BY <2>1, <2>2, <2>3
<1>12. CASE RowsFail(p)
  <2>1. TypeOK' BY <1>12 DEF TypeOK, Statement, File, RowsFail, Rollback
  <2>2. LockedWhenCommitted' /\ MarkedFirst' /\ Phases'
    BY <1>12 DEF TypeOK, LockedWhenCommitted, MarkedFirst, Phases, RowsFail, Rollback
  <2>3. OneInsert' BY <1>12 DEF TypeOK, OneInsert, Inserting, Phases, RowsFail, Rollback
  <2> QED BY <2>1, <2>2, <2>3
<1>13. CASE CleanUp(p)
  <2>1. TypeOK' BY <1>13 DEF TypeOK, Statement, File, CleanUp
  <2>2. LockedWhenCommitted' /\ MarkedFirst' /\ Phases'
    BY <1>13 DEF TypeOK, LockedWhenCommitted, MarkedFirst, Phases, CleanUp
  <2>3. OneInsert' BY <1>13 DEF TypeOK, OneInsert, Inserting, Phases, CleanUp
  <2> QED BY <2>1, <2>2, <2>3
<1>14. CASE IngestFails(p)
  <2>1. TypeOK' BY <1>14 DEF TypeOK, Statement, File, IngestFails
  <2>2. LockedWhenCommitted' /\ MarkedFirst' /\ Phases'
    BY <1>14 DEF TypeOK, LockedWhenCommitted, MarkedFirst, Phases, IngestFails
  <2>3. OneInsert' BY <1>14 DEF TypeOK, OneInsert, Inserting, Phases, IngestFails
  <2> QED BY <2>1, <2>2, <2>3
<1>15. CASE IngestBreaks(p)
  <2>1. TypeOK' BY <1>15 DEF TypeOK, Statement, File, IngestBreaks, Rollback
  <2>2. LockedWhenCommitted' /\ MarkedFirst' /\ Phases'
    BY <1>15 DEF TypeOK, LockedWhenCommitted, MarkedFirst, Phases, IngestBreaks, Rollback
  <2>3. OneInsert' BY <1>15 DEF TypeOK, OneInsert, Inserting, Phases, IngestBreaks, Rollback
  <2> QED BY <2>1, <2>2, <2>3
<1>16. CASE EndTask(p)
  <2>1. TypeOK' BY <1>16 DEF TypeOK, Statement, File, EndTask
  <2>2. LockedWhenCommitted' /\ MarkedFirst' /\ Phases'
    BY <1>16 DEF TypeOK, LockedWhenCommitted, MarkedFirst, Phases, EndTask
  <2>3. OneInsert' BY <1>16 DEF TypeOK, OneInsert, Inserting, Phases, EndTask
  <2> QED BY <2>1, <2>2, <2>3
<1> QED
  BY <1>1, <1>2, <1>3, <1>4, <1>5, <1>6, <1>7, <1>8, <1>9, <1>10, <1>11, <1>12, <1>13, <1>14, <1>15, <1>16
     DEF Step

\* So does every step of the system.
LEMMA NextInv == VaultInv /\ [Next]_vars => VaultInv'
<1> SUFFICES ASSUME VaultInv, [Next]_vars PROVE VaultInv'
  OBVIOUS
<1>1. CASE \E p \in Writer : Step(p)
  BY <1>1, StepInv
<1>2. CASE UNCHANGED vars
  BY <1>2 DEF vars, VaultInv, TypeOK, LockedWhenCommitted, MarkedFirst, Phases,
              OneInsert, Inserting
<1> QED BY <1>1, <1>2 DEF Next, AllEnded

\* The inductive invariant holds in every reachable state.
THEOREM VaultInvariance == Spec => []VaultInv
  BY InitInv, NextInv, PTL DEF Spec

\* Directory, rows and writers keep their types, whatever fails.
THEOREM TypeCorrect == Spec => []TypeOK
<1>1. VaultInv => TypeOK BY DEF VaultInv
<1> QED BY <1>1, VaultInvariance, PTL

\* Rows that an upload committed always have the LOCKED marker beside them
\* (upload_job_evidence writes it before it commits).
THEOREM CommittedIsLocked == Spec => []LockedWhenCommitted
<1>1. VaultInv => LockedWhenCommitted BY DEF VaultInv
<1> QED BY <1>1, VaultInvariance, PTL

-----------------------------------------------------------------------------
\* A step with committed rows leaves them alone: nobody is inserting.
LEMMA RowsStep == ASSUME VaultInv, folder # None, [Next]_vars PROVE rows' = rows
<1>1. CASE \E p \in Writer : Step(p)
  <2>1. PICK p \in Writer : Step(p) BY <1>1
  <2>2. ~Inserting(p) BY DEF VaultInv, OneInsert
  <2>3. ~Commit(p) BY <2>2 DEF Commit, Inserting
  <2> QED
    BY <2>1, <2>2, <2>3
       DEF rows, Step, Rollback, BeginUpload, BeginIngest, SaveArchive, Extract,
           WriteHashManifest, CreateFolder, CreateItems, WriteLockMarker, SaveFails,
           UploadFails, RowsFail, CleanUp, IngestFails, IngestBreaks, EndTask
<1>2. CASE UNCHANGED vars
  BY <1>2 DEF vars, rows
<1> QED BY <1>1, <1>2 DEF Next, AllEnded

\* The rows of a job's evidence are committed at most once and never replaced,
\* whoever writes concurrently.
THEOREM RowsCommittedOnce == Spec => RowsOnce
<1>1. VaultInv /\ [Next]_vars => [folder # None => rows' = rows]_vars
  BY RowsStep
<1> QED BY <1>1, VaultInvariance, PTL DEF Spec, RowsOnce

-----------------------------------------------------------------------------
(* The audit log: requests never wait for each other in a circle, for any  *)
(* number of requests, any hash and any retention.  The inductive          *)
(* invariant says that timestamps tell rows apart, that the rows a request *)
(* holds are visible to it and held by nobody else, and that the row it    *)
(* asks for is not older than any it holds.                                *)

Rows == entries \cup UNION {own[r] : r \in Request}

\* The requests between their timestamp and their insert.
Recording == {r \in Request : at[r] # "handler"}

\* No two events have the same timestamp, and none is ahead of the clock.
Stamped ==
  /\ \A e, f \in Rows : e.time = f.time => e = f
  /\ \A e \in Rows : e.time < clock
  /\ \A r \in Recording : stamp[r] < clock /\ \A e \in Rows : e.time # stamp[r]
  /\ \A r, q \in Recording : stamp[r] = stamp[q] => r = q

\* A held row is visible, to its holder, and held once.
HeldOnce ==
  /\ \A r \in Request : held[r] \subseteq Visible(r)
  /\ \A r, q \in Request : r # q => held[r] \cap held[q] = {}

\* A request asks for rows in the order of their timestamps.
InOrder ==
  \A r \in Request : at[r] = "lock" =>
    \A e \in held[r] : latest[r].time \in Nat /\ e.time <= latest[r].time

LockInv == AuditTypeOK /\ Stamped /\ HeldOnce /\ InOrder

\* The invariant holds of an empty log.
LEMMA LockInit == AuditInit => LockInv
  BY DEF AuditInit, LockInv, AuditTypeOK, Stamped, HeldOnce, InOrder, AuditStatement, Rows,
         Recording, Visible

\* A new timestamp is ahead of all others.
LEMMA StampStep == ASSUME LockInv, NEW r \in Request, TakeTimestamp(r) PROVE LockInv'
<1> USE DEF LockInv
<1>1. /\ UNCHANGED <<entries, own, held, latest>>
      /\ clock' = clock + 1 /\ stamp' = [stamp EXCEPT ![r] = clock]
      /\ at' = [at EXCEPT ![r] = "select"]
  BY DEF TakeTimestamp
<1>2. AuditTypeOK' BY <1>1 DEF AuditTypeOK, AuditStatement
<1>3. Rows' = Rows /\ \A e \in Rows : e.time \in Nat BY <1>1 DEF Rows, AuditTypeOK
<1>4. Recording' = Recording \cup {r} BY <1>1 DEF Recording, AuditTypeOK
<1>5. Stamped' BY <1>1, <1>3, <1>4 DEF Stamped, AuditTypeOK, Recording
<1>6. HeldOnce' BY <1>1 DEF HeldOnce, Visible
<1>7. InOrder' BY <1>1 DEF InOrder, AuditTypeOK
<1> QED BY <1>2, <1>5, <1>6, <1>7

\* The row chosen is the latest of those the request sees, its own locks included.
LEMMA SelectStep == ASSUME LockInv, NEW r \in Request, SelectLatest(r) PROVE LockInv'
<1> USE DEF LockInv
<1>1. PICK e \in Visible(r) \cup {NoEntry} :
        /\ IF Visible(r) = {} THEN e = NoEntry ELSE IsLatest(e, Visible(r))
        /\ latest' = [latest EXCEPT ![r] = e]
  BY DEF SelectLatest
<1>2. /\ UNCHANGED <<entries, clock, own, held, stamp>>
      /\ at[r] = "select" /\ at' = [at EXCEPT ![r] = "lock"]
  BY DEF SelectLatest
<1>3. AuditTypeOK' BY <1>1, <1>2 DEF AuditTypeOK, AuditStatement
<1>4. Rows' = Rows /\ Recording' = Recording BY <1>2 DEF Rows, Recording, AuditTypeOK
<1>5. Stamped' BY <1>2, <1>4 DEF Stamped
<1>6. HeldOnce' BY <1>2 DEF HeldOnce, Visible
<1>7. \A f \in held[r] : e.time \in Nat /\ f.time <= e.time
  <2>1. SUFFICES ASSUME NEW f \in held[r] PROVE e.time \in Nat /\ f.time <= e.time
    OBVIOUS
  <2>2. f \in Visible(r) BY DEF HeldOnce
  <2>3. e \in Visible(r) /\ f.time <= e.time BY <1>1, <2>2 DEF IsLatest
  <2>4. e.time \in Nat BY <2>3 DEF Visible, AuditTypeOK
  <2> QED BY <2>3, <2>4
<1>8. InOrder' BY <1>1, <1>2, <1>7 DEF InOrder, AuditTypeOK
<1> QED BY <1>3, <1>5, <1>6, <1>8

\* A lock is granted on a visible row that nobody else holds; a row that is gone
\* is not locked.
LEMMA LockStep ==
  ASSUME LockInv, NEW r \in Request, LockLatest(r) \/ LatestIsGone(r) PROVE LockInv'
<1> USE DEF LockInv
<1>1. /\ UNCHANGED <<entries, clock, own, stamp, latest>>
      /\ at[r] = "lock" /\ at' \in {[at EXCEPT ![r] = "insert"], [at EXCEPT ![r] = "select"]}
  BY DEF LockLatest, LatestIsGone
<1>2. /\ DOMAIN held' = Request
      /\ \A q \in Request \ {r} : held'[q] = held[q]
      /\ \/ held'[r] = held[r]
         \/ /\ held'[r] = held[r] \cup {latest[r]}
            /\ latest[r] \in Visible(r) /\ \A q \in Request \ {r} : latest[r] \notin held[q]
  <2>1. CASE LockLatest(r)
    <3>1. /\ DOMAIN held' = Request
          /\ \A q \in Request \ {r} : held'[q] = held[q]
          /\ held'[r] = IF latest[r] = NoEntry THEN held[r] ELSE held[r] \cup {latest[r]}
      BY <2>1 DEF LockLatest, AuditTypeOK
    <3> QED BY <2>1, <3>1 DEF LockLatest
  <2>2. CASE LatestIsGone(r) BY <2>2 DEF LatestIsGone, AuditTypeOK
  <2> QED BY <2>1, <2>2
<1>3. AuditTypeOK' BY <1>1, <1>2 DEF AuditTypeOK, AuditStatement
<1>4. Rows' = Rows /\ Recording' = Recording BY <1>1 DEF Rows, Recording, AuditTypeOK
<1>5. Stamped' BY <1>1, <1>4 DEF Stamped
<1>6. HeldOnce' BY <1>1, <1>2 DEF HeldOnce, Visible, AuditTypeOK
<1>7. \A q \in Request \ {r} : at'[q] = at[q] /\ held'[q] = held[q]
  BY <1>1, <1>2 DEF AuditTypeOK
<1>8. at'[r] # "lock" BY <1>1 DEF AuditTypeOK
<1>9. InOrder' BY <1>1, <1>7, <1>8 DEF InOrder
<1> QED BY <1>3, <1>5, <1>6, <1>9

\* The new row has the timestamp of its request, which no other row has.
LEMMA InsertStep == ASSUME LockInv, NEW r \in Request, InsertEntry(r) PROVE LockInv'
<1> USE DEF LockInv
<1> DEFINE e == NewEntry(stamp[r], latest[r])
<1>1. DOMAIN e = {"time", "prev", "hash"} /\ e.time = stamp[r] /\ stamp[r] \in Nat
  BY DEF NewEntry, AuditTypeOK
<1>2. /\ entries' = entries /\ at[r] = "insert"
      /\ own' = [own EXCEPT ![r] = @ \cup {e}]
      /\ at' = [at EXCEPT ![r] = "handler"]
      /\ UNCHANGED <<held, stamp, latest, clock>>
  BY DEF InsertEntry
<1> HIDE DEF e
<1>3. \A q \in Request : own'[q] = IF q = r THEN own[q] \cup {e} ELSE own[q]
  BY <1>2 DEF AuditTypeOK
<1>4. Rows' = Rows \cup {e} BY <1>2, <1>3 DEF Rows
<1>5. Recording' = Recording \ {r} /\ r \in Recording BY <1>2 DEF Recording, AuditTypeOK
<1>6. AuditTypeOK'
  <2>1. \A f \in Rows' : DOMAIN f = {"time", "prev", "hash"} /\ f.time \in Nat
    BY <1>1, <1>4 DEF AuditTypeOK, Rows
  <2> QED BY <1>2, <2>1 DEF AuditTypeOK, AuditStatement, Rows
<1>7. Stamped' BY <1>1, <1>2, <1>4, <1>5 DEF Stamped
<1>8. HeldOnce' BY <1>2, <1>3 DEF HeldOnce, Visible
<1>9. InOrder' BY <1>2 DEF InOrder, AuditTypeOK
<1> QED BY <1>6, <1>7, <1>8, <1>9

\* A request ends with all of its entries or none, and gives its locks back.
LEMMA EndStep ==
  ASSUME LockInv, NEW r \in Request, CommitEvents(r) \/ RollbackEvents(r)
  PROVE  LockInv'
<1> USE DEF LockInv
<1>1. PICK kept \in {own[r], {}} : End(r, kept)
  BY DEF CommitEvents, RollbackEvents
<1>2. /\ entries' = entries \cup kept
      /\ own' = [own EXCEPT ![r] = {}]
      /\ held' = [held EXCEPT ![r] = {}]
      /\ at' = [at EXCEPT ![r] = "handler"]
      /\ UNCHANGED <<clock, stamp, latest>>
  BY <1>1 DEF End
<1>3. /\ \A q \in Request \ {r} : own'[q] = own[q] /\ held'[q] = held[q] /\ at'[q] = at[q]
      /\ own'[r] = {} /\ held'[r] = {} /\ at'[r] = "handler"
  BY <1>2 DEF AuditTypeOK
<1>4. kept \subseteq Rows BY <1>1 DEF Rows
<1>5. Rows' \subseteq Rows BY <1>2, <1>3, <1>4 DEF Rows
<1>6. Recording' \subseteq Recording BY <1>3 DEF Recording
<1>7. AuditTypeOK'
  <2>1. \A f \in Rows' : DOMAIN f = {"time", "prev", "hash"} /\ f.time \in Nat
    BY <1>5 DEF AuditTypeOK, Rows
  <2> QED BY <1>2, <2>1 DEF AuditTypeOK, AuditStatement, Rows
<1>8. Stamped' BY <1>2, <1>5, <1>6 DEF Stamped
<1>9. HeldOnce' BY <1>2, <1>3 DEF HeldOnce, Visible
<1>10. InOrder' BY <1>2, <1>3 DEF InOrder
<1> QED BY <1>7, <1>8, <1>9, <1>10

\* Retention waits for held rows.
LEMMA PruneStep == ASSUME LockInv, NEW cutoff, Prune(cutoff) PROVE LockInv'
<1> USE DEF LockInv
<1> DEFINE old == {e \in entries : Expired(e, cutoff)}
<1>1. /\ entries' = entries \ old
      /\ \A r \in Request : held[r] \cap old = {}
      /\ UNCHANGED <<clock, own, held, stamp, latest, at>>
  BY DEF Prune
<1>2. old \subseteq entries OBVIOUS
<1> HIDE DEF old
<1>3. Rows' \subseteq Rows /\ Recording' = Recording BY <1>1 DEF Rows, Recording
<1>4. AuditTypeOK' BY <1>1 DEF AuditTypeOK
<1>5. Stamped' BY <1>1, <1>3 DEF Stamped
<1>6. HeldOnce' BY <1>1 DEF HeldOnce, Visible
<1>7. InOrder' BY <1>1 DEF InOrder
<1> QED BY <1>4, <1>5, <1>6, <1>7

\* Every step of the system keeps the invariant.
LEMMA LockNext == LockInv /\ [AuditNext]_auditVars => LockInv'
<1> SUFFICES ASSUME LockInv, [AuditNext]_auditVars PROVE LockInv'
  OBVIOUS
<1>1. ASSUME NEW r \in Request, AuditStep(r) PROVE LockInv'
  BY <1>1, StampStep, SelectStep, LockStep, InsertStep, EndStep DEF AuditStep
<1>2. ASSUME NEW cutoff, Prune(cutoff) PROVE LockInv'
  BY <1>2, PruneStep
<1>3. CASE UNCHANGED auditVars
  BY <1>3 DEF auditVars, LockInv, AuditTypeOK, Stamped, HeldOnce, InOrder, Rows, Recording, Visible
<1> QED BY <1>1, <1>2, <1>3 DEF AuditNext, Quiescent

\* In a circle, the request that waits for the latest row waits for one whose holder
\* waits for a row that is no older: the same row, held twice.
LEMMA NoCircle == LockInv => NoCircularWait
<1> SUFFICES ASSUME LockInv, NEW C \in SUBSET Request, CircularWait(C) PROVE FALSE
  BY DEF NoCircularWait
<1> USE DEF LockInv
<1>1. \A r \in C : latest[r] \in Rows
  BY DEF CircularWait, HeldOnce, Visible, Rows
<1>2. \A r \in C : latest[r].time \in Nat /\ latest[r].time < clock /\ clock \in Nat
  BY <1>1 DEF AuditTypeOK, Rows, Stamped
<1> DEFINE T == {clock - latest[r].time : r \in C}
<1>3. T \in SUBSET Nat /\ T # {} BY <1>2 DEF CircularWait
<1>4. \A r \in C : clock - latest[r].time \in T OBVIOUS
<1>5. PICK r \in C : \A n \in T : ~(n < clock - latest[r].time)
  <2> HIDE DEF T
  <2>1. PICK m \in T : \A n \in T : <<n, m>> \notin OpToRel(<, Nat)
    BY <1>3, NatLessThanWellFounded, WFMin
  <2>2. ASSUME NEW n \in T, n < m PROVE FALSE
    <3>1. <<n, m>> \in Nat \X Nat /\ <<n, m>>[1] = n /\ <<n, m>>[2] = m BY <1>3
    <3>2. <<n, m>> \in OpToRel(<, Nat) BY <2>2, <3>1 DEF OpToRel
    <3> QED BY <2>1, <3>2
  <2>3. PICK r \in C : m = clock - latest[r].time BY DEF T
  <2> QED BY <2>2, <2>3
<1> HIDE DEF T
<1>6. \A q \in C : latest[q].time <= latest[r].time
  <2> SUFFICES ASSUME NEW q \in C PROVE latest[q].time <= latest[r].time
    OBVIOUS
  <2>1. ~(clock - latest[q].time < clock - latest[r].time) BY <1>4, <1>5
  <2> QED BY <1>2, <2>1
<1>7. PICK q \in C \ {r} : latest[r] \in held[q] BY DEF CircularWait
<1>8. latest[r].time <= latest[q].time BY <1>7 DEF CircularWait, InOrder
<1>9. latest[q] = latest[r] BY <1>1, <1>2, <1>6, <1>7, <1>8 DEF Stamped
<1>10. PICK p \in C \ {q} : latest[q] \in held[p] BY <1>7 DEF CircularWait
<1> QED BY <1>7, <1>9, <1>10 DEF HeldOnce

\* The inductive invariant holds in every reachable state.
THEOREM LockInvariance == AuditSpec => []LockInv
  BY LockInit, LockNext, PTL DEF AuditSpec

\* The rows and requests of the audit log are always well formed.
THEOREM AuditTypeCorrect == AuditSpec => []AuditTypeOK
<1>1. LockInv => AuditTypeOK BY DEF LockInv
<1> QED BY <1>1, LockInvariance, PTL

\* Requests that lock the latest entry while they hold earlier ones never wait for
\* each other in a circle (get_latest_entry, record_event, prune_old_entries).
THEOREM RequestsNeverCircle == AuditSpec => []NoCircularWait
  BY NoCircle, LockInvariance, PTL
=============================================================================
