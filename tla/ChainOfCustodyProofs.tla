------------------------ MODULE ChainOfCustodyProofs ------------------------
(***************************************************************************)
(* The chain of custody stays intact for any number of incidents and       *)
(* concurrent requests, whatever they record and however they fail, a      *)
(* listing of it verifies, and it implements the append-only log.          *)
(* Nothing is assumed of the hash function.                                *)
(***************************************************************************)
EXTENDS ChainOfCustody, FiniteSetTheorems, SequenceTheorems, WellFoundedInduction, TLAPS

-----------------------------------------------------------------------------
(* The inductive invariant: ChainIntact says nothing of the rows that are  *)
(* inserted and not committed, nor of the row a request builds on.         *)

AllRows == rows \cup UNION {own[r] : r \in Request}

IsEntry(e) ==
  /\ DOMAIN e = {"id", "incident", "seq", "what", "prev", "hash"}
  /\ e.incident \in Incident
  /\ e.seq \in Nat \ {0}

\* Uncommitted rows included, no two rows share a sequence number, and each links
\* to a row that will be committed no later than itself.
RowsLinked ==
  /\ Unforked(AllRows)
  /\ \A e \in rows : LinkedIn(e, rows)
  /\ \A r \in Request : \A e \in own[r] : LinkedIn(e, Visible(r))

\* A request inside create_entry has an entry to record and builds on a row of
\* that incident which its session sees.
BuildsOnVisible(r) ==
  /\ pc[r] \in {"select", "lock", "insert"} => step[r] \in 1 .. Len(Plan[r])
  /\ pc[r] \in {"lock", "insert"} =>
       \/ last[r] = None
       \/ last[r] \in Visible(r) /\ last[r].incident = Current(r).incident

ChainInv ==
  /\ TypeOK
  /\ RowsLinked
  /\ \A r \in Request : BuildsOnVisible(r)

\* The rows of a well-typed table are full entries.
LEMMA TypeOfRows == TypeOK => \A e \in AllRows : IsEntry(e)
BY DEF TypeOK, AllRows, IsEntry

\* An empty table satisfies the invariant.
LEMMA InitOK == Init => ChainInv
<1> SUFFICES ASSUME Init PROVE ChainInv
  OBVIOUS
<1>1. AllRows = {} /\ rows = {} /\ \A r \in Request : own[r] = {}
  BY DEF Init, AllRows
<1>2. TypeOK
  BY <1>1 DEF Init, TypeOK, AllRows, StatementNames
<1>3. RowsLinked
  BY <1>1 DEF RowsLinked, Unforked
<1>4. \A r \in Request : BuildsOnVisible(r)
  BY DEF Init, BuildsOnVisible
<1> QED
  BY <1>2, <1>3, <1>4 DEF ChainInv

\* A row links to what it linked to when more rows are there.
LEMMA LinkedMonotone ==
  ASSUME NEW e, NEW S, NEW T, S \subseteq T, LinkedIn(e, S)
  PROVE  LinkedIn(e, T)
BY DEF LinkedIn

\* Steps that insert and commit nothing.
LEMMA RowsUnchanged ==
  ASSUME ChainInv, UNCHANGED <<rows, own>>,
         DOMAIN held' = Request, DOMAIN last' = Request,
         step' \in [Request -> Nat \ {0}], pc' \in [Request -> StatementNames],
         \A r \in Request : BuildsOnVisible(r)'
  PROVE  ChainInv'
<1>1. AllRows' = AllRows /\ \A r \in Request : Visible(r)' = Visible(r)
  BY DEF AllRows, Visible
<1>2. TypeOK'
  BY DEF ChainInv, TypeOK
<1>3. RowsLinked'
  <2>1. Unforked(AllRows)'
    BY <1>1 DEF ChainInv, RowsLinked, Unforked
  <2>2. \A e \in rows : LinkedIn(e, rows)'
    BY DEF ChainInv, RowsLinked, LinkedIn
  <2>3. \A r \in Request : \A e \in own[r] : LinkedIn(e, Visible(r))'
    BY <1>1 DEF ChainInv, RowsLinked, LinkedIn
  <2> QED
    BY <2>1, <2>2, <2>3 DEF RowsLinked
<1> QED
  BY <1>2, <1>3 DEF ChainInv

\* The statements that only read keep the invariant.
LEMMA ReadStep ==
  ASSUME ChainInv, NEW r \in Request,
         CheckId(r) \/ SwallowDuplicate(r) \/ SelectLast(r) \/ LockLast(r)
  PROVE  ChainInv'
<1>0. /\ pc \in [Request -> StatementNames] /\ step \in [Request -> Nat \ {0}]
      /\ DOMAIN held = Request /\ DOMAIN last = Request
  BY DEF ChainInv, TypeOK
<1>1. UNCHANGED <<rows, own>>
  BY DEF CheckId, SwallowDuplicate, SelectLast, LockLast
<1>2. \A q \in Request : Visible(q)' = Visible(q)
  BY <1>1 DEF Visible
<1>3. CASE CheckId(r)
  <2>1. step[r] \in 1 .. Len(Plan[r])
    BY <1>0, <1>3, CustodyAssumption DEF CheckId, HasEntry
  <2>2. \A q \in Request : /\ step'[q] = step[q] /\ last'[q] = last[q]
                           /\ pc'[q] = IF q = r THEN "select" ELSE pc[q]
    BY <1>0, <1>3 DEF CheckId
  <2>3. \A q \in Request : BuildsOnVisible(q)'
    BY <1>2, <1>3, <2>1, <2>2 DEF ChainInv, BuildsOnVisible, Current, CheckId
  <2> QED
    BY <1>0, <1>1, <1>3, <2>3, RowsUnchanged DEF CheckId, StatementNames
<1>4. CASE SwallowDuplicate(r)
  <2>1. \A q \in Request : /\ last'[q] = last[q] /\ pc'[q] = pc[q]
                           /\ step'[q] = IF q = r THEN step[q] + 1 ELSE step[q]
    BY <1>0, <1>4 DEF SwallowDuplicate
  <2>2. pc[r] = "check"
    BY <1>4 DEF SwallowDuplicate
  <2>3. \A q \in Request : BuildsOnVisible(q)'
    BY <1>2, <2>1, <2>2 DEF ChainInv, BuildsOnVisible, Current
  <2> QED
    BY <1>0, <1>1, <1>4, <2>3, RowsUnchanged DEF SwallowDuplicate
<1>5. CASE SelectLast(r)
  <2>1. PICK e \in Visible(r) \cup {None} :
          /\ IF EntriesOf(Visible(r), Current(r).incident) = {} THEN e = None
             ELSE IsLast(e, Visible(r), Current(r).incident)
          /\ last' = [last EXCEPT ![r] = e]
    BY <1>5 DEF SelectLast
  <2>2. e = None \/ (e \in Visible(r) /\ e.incident = Current(r).incident)
    BY <2>1 DEF IsLast, EntriesOf
  <2>3. \A q \in Request : /\ last'[q] = (IF q = r THEN e ELSE last[q])
                           /\ step'[q] = step[q]
                           /\ pc'[q] = IF q = r THEN "lock" ELSE pc[q]
    BY <1>0, <1>5, <2>1 DEF SelectLast
  <2>4. pc[r] = "select"
    BY <1>5 DEF SelectLast
  <2>5. \A q \in Request : BuildsOnVisible(q)'
    BY <1>2, <2>2, <2>3, <2>4 DEF ChainInv, BuildsOnVisible, Current
  <2> QED
    BY <1>0, <1>1, <1>5, <2>1, <2>5, RowsUnchanged DEF SelectLast, StatementNames
<1>6. CASE LockLast(r)
  <2>1. \A q \in Request : /\ last'[q] = last[q] /\ step'[q] = step[q]
                           /\ pc'[q] = IF q = r THEN "insert" ELSE pc[q]
    BY <1>0, <1>6 DEF LockLast
  <2>2. pc[r] = "lock"
    BY <1>6 DEF LockLast
  <2>3. \A q \in Request : BuildsOnVisible(q)'
    BY <1>2, <2>1, <2>2 DEF ChainInv, BuildsOnVisible, Current
  <2> QED
    BY <1>0, <1>1, <1>6, <2>3, RowsUnchanged DEF LockLast, StatementNames
<1> QED
  BY <1>3, <1>4, <1>5, <1>6

\* Rolling back takes away only rows that no other request can see.
LEMMA AbortStep ==
  ASSUME ChainInv, NEW r \in Request, Abort(r)
  PROVE  ChainInv'
<1>0. /\ DOMAIN own = Request /\ DOMAIN held = Request
      /\ pc \in [Request -> StatementNames]
  BY DEF ChainInv, TypeOK
<1>1. rows' = rows /\ last' = last /\ step' = step
  BY DEF Abort
<1>2. \A q \in Request : own'[q] = IF q = r THEN {} ELSE own[q]
  BY <1>0 DEF Abort
<1>3. \A q \in Request : pc'[q] = IF q = r THEN "aborted" ELSE pc[q]
  BY <1>0 DEF Abort
<1>4. AllRows' \subseteq AllRows
  BY <1>1, <1>2 DEF AllRows
<1>5. TypeOK'
  <2>1. \A e \in AllRows' : IsEntry(e)
    BY <1>4, TypeOfRows DEF ChainInv
  <2>2. /\ DOMAIN own' = Request /\ DOMAIN held' = Request /\ DOMAIN last' = Request
        /\ step' \in [Request -> Nat \ {0}] /\ pc' \in [Request -> StatementNames]
    BY <1>0 DEF Abort, ChainInv, TypeOK, StatementNames
  <2> QED
    BY <2>1, <2>2 DEF TypeOK, AllRows, IsEntry
<1>6. RowsLinked'
  <2>1. Unforked(AllRows)'
    BY <1>4 DEF ChainInv, RowsLinked, Unforked
  <2>2. \A e \in rows' : LinkedIn(e, rows')
    BY <1>1 DEF ChainInv, RowsLinked
  <2>3. \A q \in Request : \A e \in own'[q] : LinkedIn(e, Visible(q)')
    BY <1>1, <1>2 DEF ChainInv, RowsLinked, Visible
  <2> QED
    BY <2>1, <2>2, <2>3 DEF RowsLinked, LinkedIn
<1>7. \A q \in Request : BuildsOnVisible(q)'
  BY <1>1, <1>2, <1>3 DEF ChainInv, BuildsOnVisible, Visible, Current
<1> QED
  BY <1>5, <1>6, <1>7 DEF ChainInv

\* The new row continues the row it was built on; the unique constraint keeps a
\* second one from doing so.
LEMMA InsertStep ==
  ASSUME ChainInv, NEW r \in Request, Insert(r)
  PROVE  ChainInv'
<1> DEFINE e == NewEntry(Current(r), last[r])
<1>0. /\ DOMAIN own = Request /\ pc \in [Request -> StatementNames]
      /\ step \in [Request -> Nat \ {0}]
  BY DEF ChainInv, TypeOK
<1>1. /\ pc[r] = "insert" /\ ~Clash(e, Visible(r)) /\ ~Clash(e, Pending(r))
      /\ rows' = rows /\ last' = last /\ held' = held
      /\ own' = [own EXCEPT ![r] = @ \cup {e}]
      /\ step' = [step EXCEPT ![r] = @ + 1] /\ pc' = [pc EXCEPT ![r] = "check"]
  BY DEF Insert
<1>2. /\ step[r] \in 1 .. Len(Plan[r])
      /\ last[r] = None \/ (last[r] \in Visible(r) /\ last[r].incident = Current(r).incident)
  BY <1>1 DEF ChainInv, BuildsOnVisible
<1>3. Current(r).incident \in Incident
  BY <1>2, CustodyAssumption DEF Current
<1>4. last[r] # None => last[r].seq \in Nat \ {0}
  <2>1. \A f \in Visible(r) : f \in AllRows
    BY DEF Visible, AllRows
  <2> QED
    BY <1>2, <2>1, TypeOfRows DEF ChainInv, IsEntry
<1>5. NextSequence(last[r]) \in Nat \ {0}
  BY <1>4 DEF NextSequence
<1>6. /\ e.incident = Current(r).incident /\ e.seq = NextSequence(last[r])
      /\ e.prev = PreviousHash(last[r])
      /\ e.hash = Hash(e.incident, e.seq, e.what, e.prev)
      /\ DOMAIN e = {"id", "incident", "seq", "what", "prev", "hash"}
  BY DEF NewEntry
<1>7. IsEntry(e)
  BY <1>3, <1>5, <1>6 DEF IsEntry
<1>8. LinkedIn(e, Visible(r))
  <2>1. CASE last[r] = None
    BY <1>6, <2>1 DEF LinkedIn, NextSequence, PreviousHash
  <2>2. CASE last[r] # None
    BY <1>2, <1>4, <1>6, <2>2 DEF LinkedIn, NextSequence, PreviousHash
  <2> QED
    BY <2>1, <2>2
<1> HIDE DEF e
<1>9. \A q \in Request : own'[q] = IF q = r THEN own[q] \cup {e} ELSE own[q]
  BY <1>0, <1>1
<1>10. AllRows' = AllRows \cup {e}
  BY <1>1, <1>9 DEF AllRows
<1>11. \A f \in AllRows : ~(f.incident = e.incident /\ f.seq = e.seq)
  <2>1. \A f \in AllRows : f \in Visible(r) \/ f \in Pending(r)
    BY DEF AllRows, Visible, Pending
  <2> QED
    BY <1>1, <2>1 DEF Clash
<1>12. TypeOK'
  <2>1. \A f \in AllRows' : IsEntry(f)
    BY <1>7, <1>10, TypeOfRows DEF ChainInv
  <2>2. /\ DOMAIN own' = Request /\ DOMAIN held' = Request /\ DOMAIN last' = Request
        /\ step' \in [Request -> Nat \ {0}] /\ pc' \in [Request -> StatementNames]
    BY <1>0, <1>1 DEF ChainInv, TypeOK, StatementNames
  <2> QED
    BY <2>1, <2>2 DEF TypeOK, AllRows, IsEntry
<1>13. RowsLinked'
  <2>1. Unforked(AllRows')
    BY <1>10, <1>11 DEF ChainInv, RowsLinked, Unforked
  <2>2. \A f \in rows' : LinkedIn(f, rows')
    BY <1>1 DEF ChainInv, RowsLinked
  <2>3. \A q \in Request : \A f \in own'[q] : LinkedIn(f, Visible(q)')
    <3> SUFFICES ASSUME NEW q \in Request, NEW f \in own'[q]
                 PROVE  LinkedIn(f, Visible(q)')
      OBVIOUS
    <3>1. Visible(q) \subseteq Visible(q)'
      BY <1>1, <1>9 DEF Visible
    <3>2. LinkedIn(f, Visible(q))
      BY <1>8, <1>9 DEF ChainInv, RowsLinked
    <3> QED
      BY <3>1, <3>2, LinkedMonotone
  <2> QED
    BY <2>1, <2>2, <2>3 DEF RowsLinked, Unforked, LinkedIn
<1>14. \A q \in Request : BuildsOnVisible(q)'
  <2>1. \A q \in Request : /\ last'[q] = last[q] /\ Visible(q) \subseteq Visible(q)'
                           /\ pc'[q] = (IF q = r THEN "check" ELSE pc[q])
                           /\ q # r => step'[q] = step[q]
    BY <1>0, <1>1, <1>9 DEF Visible
  <2> QED
    BY <2>1 DEF ChainInv, BuildsOnVisible, Current
<1> QED
  BY <1>12, <1>13, <1>14 DEF ChainInv

\* A commit makes rows visible that link to visible rows.
LEMMA CommitStep ==
  ASSUME ChainInv, NEW r \in Request, Commit(r)
  PROVE  ChainInv'
<1>0. /\ DOMAIN own = Request /\ DOMAIN held = Request
      /\ pc \in [Request -> StatementNames]
  BY DEF ChainInv, TypeOK
<1>1. rows' = rows \cup own[r] /\ last' = last /\ step' = step
  BY DEF Commit
<1>2. \A q \in Request : own'[q] = IF q = r THEN {} ELSE own[q]
  BY <1>0 DEF Commit
<1>3. \A q \in Request : pc'[q] = IF q = r THEN "committed" ELSE pc[q]
  BY <1>0 DEF Commit
<1>4. AllRows' = AllRows
  BY <1>1, <1>2 DEF AllRows
<1>5. \A q \in Request : q # r => Visible(q) \subseteq Visible(q)'
  BY <1>1, <1>2 DEF Visible
<1>6. TypeOK'
  <2>1. \A e \in AllRows' : IsEntry(e)
    BY <1>4, TypeOfRows DEF ChainInv
  <2>2. /\ DOMAIN own' = Request /\ DOMAIN held' = Request /\ DOMAIN last' = Request
        /\ step' \in [Request -> Nat \ {0}] /\ pc' \in [Request -> StatementNames]
    BY <1>0 DEF Commit, ChainInv, TypeOK, StatementNames
  <2> QED
    BY <2>1, <2>2 DEF TypeOK, AllRows, IsEntry
<1>7. RowsLinked'
  <2>1. Unforked(AllRows')
    BY <1>4 DEF ChainInv, RowsLinked
  <2>2. \A e \in rows' : LinkedIn(e, rows')
    <3>1. \A e \in rows : LinkedIn(e, rows')
      BY <1>1, LinkedMonotone DEF ChainInv, RowsLinked
    <3>2. \A e \in own[r] : LinkedIn(e, rows')
      BY <1>1 DEF ChainInv, RowsLinked, Visible
    <3> QED
      BY <1>1, <3>1, <3>2
  <2>3. \A q \in Request : \A e \in own'[q] : LinkedIn(e, Visible(q)')
    <3> SUFFICES ASSUME NEW q \in Request, NEW e \in own'[q]
                 PROVE  LinkedIn(e, Visible(q)')
      OBVIOUS
    <3>1. q # r /\ LinkedIn(e, Visible(q))
      BY <1>2 DEF ChainInv, RowsLinked
    <3> QED
      BY <1>5, <3>1, LinkedMonotone
  <2> QED
    BY <2>1, <2>2, <2>3 DEF RowsLinked, Unforked, LinkedIn
<1>8. \A q \in Request : BuildsOnVisible(q)'
  BY <1>1, <1>3, <1>5 DEF ChainInv, BuildsOnVisible, Current
<1> QED
  BY <1>6, <1>7, <1>8 DEF ChainInv

\* Every step keeps the invariant.
LEMMA NextOK == ChainInv /\ [Next]_vars => ChainInv'
<1> SUFFICES ASSUME ChainInv, [Next]_vars PROVE ChainInv'
  OBVIOUS
<1>1. ASSUME NEW r \in Request, Step(r) \/ Fail(r) PROVE ChainInv'
  <2>1. CASE CheckId(r) \/ SwallowDuplicate(r) \/ SelectLast(r) \/ LockLast(r)
    BY <2>1, ReadStep
  <2>2. CASE RefuseDuplicate(r) \/ InsertFails(r) \/ Fail(r)
    BY <2>2, AbortStep DEF RefuseDuplicate, InsertFails, Fail
  <2>3. CASE Insert(r)
    BY <2>3, InsertStep
  <2>4. CASE Commit(r)
    BY <2>4, CommitStep
  <2> QED
    BY <1>1, <2>1, <2>2, <2>3, <2>4 DEF Step
<1>2. CASE UNCHANGED vars
  <2>1. UNCHANGED <<rows, own, held, last, step, pc>>
    BY <1>2 DEF vars
  <2>2. \A r \in Request : BuildsOnVisible(r)'
    BY <2>1 DEF ChainInv, BuildsOnVisible, Visible, Current
  <2> QED
    BY <2>1, <2>2, RowsUnchanged DEF ChainInv, TypeOK
<1> QED
  BY <1>1, <1>2 DEF Next, AllEnded

-----------------------------------------------------------------------------
(* The theorems.                                                           *)

\* Whatever requests record, and whichever fail, rows stay linked and a request
\* inside create_entry builds on a row it sees (crud/chain_of_custody.py 40-74).
THEOREM ChainInvariance == Spec => []ChainInv
BY InitOK, NextOK, PTL DEF Spec

\* Every row, committed or not, is a full entry with a positive sequence number.
THEOREM TypeCorrect == Spec => []TypeOK
<1>1. ChainInv => TypeOK
  BY DEF ChainInv
<1> QED
  BY <1>1, ChainInvariance, PTL

\* However many requests append concurrently, and whichever fail or are refused,
\* the committed entries of each incident form one unbroken chain
\* (crud/chain_of_custody.py 40-74, models/chain_of_custody.py 9).
THEOREM ChainStaysIntact == Spec => []ChainIntact
<1>1. ChainInv => ChainIntact
  BY DEF ChainInv, RowsLinked, ChainIntact, Unforked, AllRows
<1> QED
  BY <1>1, ChainInvariance, PTL

-----------------------------------------------------------------------------
(* Reading the chain.  A listing has as many places as there are rows, so  *)
(* that the rows be finite is part of the invariant.                       *)

FiniteRows == IsFiniteSet(rows) /\ \A r \in Request : IsFiniteSet(own[r])

\* Each request adds one row at a time.
LEMMA FiniteInvariance == Spec => []FiniteRows
<1>1. Init => FiniteRows
  BY FS_EmptySet DEF Init, FiniteRows
<1>2. ChainInv /\ FiniteRows /\ [Next]_vars => FiniteRows'
  <2> SUFFICES ASSUME ChainInv, FiniteRows, [Next]_vars PROVE FiniteRows'
    OBVIOUS
  <2>0. DOMAIN own = Request
    BY DEF ChainInv, TypeOK
  <2>1. CASE UNCHANGED <<rows, own>>
    BY <2>1 DEF FiniteRows
  <2>2. ASSUME NEW r \in Request, Abort(r) PROVE FiniteRows'
    <3>1. rows' = rows /\ \A q \in Request : own'[q] = IF q = r THEN {} ELSE own[q]
      BY <2>0, <2>2 DEF Abort
    <3> QED
      BY <3>1, FS_EmptySet DEF FiniteRows
  <2>3. ASSUME NEW r \in Request, Insert(r) PROVE FiniteRows'
    <3> DEFINE e == NewEntry(Current(r), last[r])
    <3>1. rows' = rows /\ own' = [own EXCEPT ![r] = @ \cup {e}]
      BY <2>3 DEF Insert
    <3> HIDE DEF e
    <3>2. \A q \in Request : own'[q] = IF q = r THEN own[q] \cup {e} ELSE own[q]
      BY <2>0, <3>1
    <3>3. IsFiniteSet(own[r] \cup {e})
      BY FS_AddElement DEF FiniteRows
    <3> QED
      BY <3>1, <3>2, <3>3 DEF FiniteRows
  <2>4. ASSUME NEW r \in Request, Commit(r) PROVE FiniteRows'
    <3>1. rows' = rows \cup own[r] /\ \A q \in Request : own'[q] = IF q = r THEN {} ELSE own[q]
      BY <2>0, <2>4 DEF Commit
    <3>2. IsFiniteSet(rows \cup own[r])
      BY FS_Union DEF FiniteRows
    <3> QED
      BY <3>1, <3>2, FS_EmptySet DEF FiniteRows
  <2>5. ASSUME NEW r \in Request, Step(r) \/ Fail(r)
        PROVE  UNCHANGED <<rows, own>> \/ Abort(r) \/ Insert(r) \/ Commit(r)
    BY <2>5 DEF Step, Fail, CheckId, RefuseDuplicate, SwallowDuplicate, SelectLast, LockLast, InsertFails
  <2> QED
    BY <2>1, <2>2, <2>3, <2>4, <2>5 DEF Next, AllEnded, vars
<1> QED
  BY <1>1, <1>2, ChainInvariance, PTL DEF Spec

\* Every non-empty set of naturals has a least element: what the proofs use in
\* place of induction.
LEMMA LeastNatural ==
  ASSUME NEW S, S \subseteq Nat, S # {}
  PROVE  \E m \in S : \A n \in S : m <= n
<1>1. PICK m \in S : \A n \in S : ~(<<n, m>> \in OpToRel(<, Nat))
  BY NatLessThanWellFounded, WFMin
<1>2. \A n \in S : ~(n < m)
  BY <1>1 DEF OpToRel
<1>3. m \in Nat /\ \A n \in S : n \in Nat
  BY <1>1
<1>4. \A n \in S : m <= n
  BY <1>2, <1>3
<1> QED
  BY <1>1, <1>4

\* In a listing in order of neighbours, what comes later is not smaller.
LEMMA ListSorted ==
  ASSUME NEW n \in Nat, NEW s, \A k \in 1..n : s[k].seq \in Nat,
         \A k \in 1..n : k > 1 => s[k - 1].seq <= s[k].seq,
         NEW j \in 1..n, NEW k \in 1..n, j <= k
  PROVE  s[j].seq <= s[k].seq
<1> DEFINE Wrong == {m \in 1..n : j <= m /\ ~(s[j].seq <= s[m].seq)}
<1>1. SUFFICES ASSUME Wrong # {} PROVE FALSE
  OBVIOUS
<1>2. Wrong \subseteq Nat
  OBVIOUS
<1>3. PICK m \in Wrong : \A o \in Wrong : m <= o
  <2> HIDE DEF Wrong
  <2> QED
    BY <1>1, <1>2, LeastNatural
<1>4. m \in 1..n /\ j < m /\ s[j].seq > s[m].seq
  BY <1>3
<1>5. m - 1 \in 1..n /\ j <= m - 1 /\ m - 1 \notin Wrong
  BY <1>3, <1>4
<1>6. s[j].seq <= s[m - 1].seq /\ s[m - 1].seq <= s[m].seq
  BY <1>4, <1>5
<1> QED
  BY <1>4, <1>5, <1>6

\* A listing names each row once, hence in strict order where no two rows share a
\* sequence number.
LEMMA ListStrict ==
  ASSUME NEW S, IsFiniteSet(S), NEW s \in ListEntries(S),
         \A e \in S : e.seq \in Nat, \A e, f \in S : e.seq = f.seq => e = f,
         NEW j \in DOMAIN s, NEW k \in DOMAIN s
  PROVE  j < k => s[j].seq < s[k].seq
<1> DEFINE n == Cardinality(S)
<1>1. n \in Nat
  BY FS_CardinalityType
<1>2. s \in [1..n -> S] /\ {s[m] : m \in DOMAIN s} = S
      /\ \A m \in DOMAIN s : m > 1 => s[m - 1].seq <= s[m].seq
  BY DEF ListEntries
<1>3. Cardinality(1..n) = n /\ IsFiniteSet(1..n)
  BY <1>1, FS_Interval
<1>4. s \in Surjection(1..n, S)
  BY <1>2 DEF Surjection
<1>5. s \in Injection(1..n, S)
  BY <1>3, <1>4, FS_SurjSameCardinalityImpliesInj
<1> HIDE DEF n
<1>6. j \in 1..n /\ k \in 1..n /\ s[j] \in S /\ s[k] \in S
  BY <1>2
<1>7. j < k => s[j] # s[k]
  BY <1>5, <1>6 DEF Injection, IsInjective
<1>8. \A m \in 1..n : s[m].seq \in Nat
  BY <1>2
<1>9. j < k => s[j].seq <= s[k].seq
  <2>1. \A m \in 1..n : m > 1 => s[m - 1].seq <= s[m].seq
    BY <1>2
  <2>2. SUFFICES ASSUME j < k PROVE s[j].seq <= s[k].seq
    OBVIOUS
  <2>3. j <= k
    BY <1>1, <1>6, <2>2
  <2> QED
    BY ONLY <1>1, <1>6, <1>8, <2>1, <2>3, ListSorted
<1> QED
  BY <1>6, <1>7, <1>8, <1>9

\* However the database breaks ties and whichever requests appended concurrently,
\* verify_entries accepts what list_entries returns, so that reading the chain of
\* an incident is not answered 409 (crud/chain_of_custody.py 9-37).
THEOREM ChainVerifiedOnRead == Spec => []VerifiedOnRead
<1>1. ChainInv /\ FiniteRows => VerifiedOnRead
  <2> SUFFICES ASSUME ChainInv, FiniteRows, NEW i \in Incident,
                      NEW s \in ListEntries(EntriesOf(rows, i)), NEW k \in DOMAIN s
               PROVE  LET previous == IF k = 1 THEN None ELSE s[k - 1].hash
                      IN /\ s[k].prev = previous
                         /\ s[k].hash = Hash(s[k].incident, s[k].seq, s[k].what, previous)
    BY DEF VerifiedOnRead, VerifyEntries
  <2> DEFINE S == EntriesOf(rows, i)
             n == Cardinality(S)
  <2>1. /\ \A e \in S : e \in rows /\ e.incident = i /\ e.seq \in Nat \ {0}
        /\ \A e, f \in S : e.seq = f.seq => e = f
        /\ \A e \in S : LinkedIn(e, rows)
        /\ \A f \in rows : f.incident = i => f \in S
    BY TypeOfRows DEF ChainInv, RowsLinked, Unforked, EntriesOf, AllRows, IsEntry
  <2>2. IsFiniteSet(S)
    <3>1. S \subseteq rows
      BY DEF EntriesOf
    <3> QED
      BY <3>1, FS_Subset DEF FiniteRows
  <2>3. s \in [1..n -> S] /\ {s[m] : m \in DOMAIN s} = S /\ n \in Nat
    BY <2>2, FS_CardinalityType DEF ListEntries
  <2>4. \A a, b \in DOMAIN s : a < b => s[a].seq < s[b].seq
    BY <2>1, <2>2, ListStrict
  <2> HIDE DEF S, n
  <2>5. /\ k \in 1..n /\ DOMAIN s = 1..n /\ s[k] \in S
        /\ \A m \in 1..n : s[m] \in S /\ s[m].seq \in Nat \ {0}
    BY <2>1, <2>3
  <2>6. /\ s[k].hash = Hash(s[k].incident, s[k].seq, s[k].what, s[k].prev)
        /\ \/ s[k].seq = 1 /\ s[k].prev = None
           \/ \E j \in 1..n : s[j].seq + 1 = s[k].seq /\ s[k].prev = s[j].hash
    <3>1. LinkedIn(s[k], rows) /\ s[k].incident = i
      BY <2>1, <2>5
    <3> QED
      BY <2>1, <2>3, <2>5, <3>1 DEF LinkedIn
  <2>7. CASE s[k].seq = 1 /\ s[k].prev = None
    <3>1. k = 1
      <4>1. SUFFICES ASSUME k # 1 PROVE FALSE
        OBVIOUS
      <4>2. 1 \in 1..n /\ 1 < k
        BY <2>3, <2>5, <4>1
      <4> QED
        BY <2>4, <2>5, <2>7, <4>2
    <3> QED
      BY <2>6, <2>7, <3>1
  <2>8. ASSUME NEW j \in 1..n, s[j].seq + 1 = s[k].seq, s[k].prev = s[j].hash
        PROVE  k # 1 /\ s[k].prev = s[k - 1].hash
    <3>1. j < k
      BY <2>3, <2>4, <2>5, <2>8
    <3>2. k - 1 \in 1..n /\ k - 1 < k
      BY <2>3, <2>5, <3>1
    <3>3. s[k - 1].seq < s[k].seq /\ (j < k - 1 => s[j].seq < s[k - 1].seq)
      BY <2>4, <2>5, <3>2
    <3>4. j = k - 1
      BY <2>5, <2>8, <3>1, <3>2, <3>3
    <3> QED
      BY <2>5, <2>8, <3>1, <3>4
  <2> QED
    BY <2>6, <2>7, <2>8
<1> QED
  BY <1>1, ChainInvariance, FiniteInvariance, PTL

-----------------------------------------------------------------------------
(* The log of an incident.  Where the rows of an incident are numbered     *)
(* without gaps, those of a commit are the next ones; that they come in    *)
(* the order of the request's plan, with every strict entry among them, is *)
(* an invariant of its own.                                                *)

\* Where every row links to one of S, no number below a row's is missing.
LEMMA Filled ==
  ASSUME NEW S, \A e \in S : IsEntry(e) /\ LinkedIn(e, S), NEW e \in S, NEW n \in 1 .. e.seq
  PROVE  \E g \in S : g.incident = e.incident /\ g.seq = n
<1> DEFINE Has(m) == \E g \in S : g.incident = e.incident /\ g.seq = m
           Wrong == {d \in 0 .. e.seq - 1 : ~Has(e.seq - d)}
<1>1. SUFFICES ASSUME Wrong # {} PROVE FALSE
  <2>1. e.seq \in Nat /\ e.seq - n \in 0 .. e.seq - 1 /\ e.seq - (e.seq - n) = n
    BY DEF IsEntry
  <2> QED
    BY <2>1
<1>2. e.seq \in Nat
  BY DEF IsEntry
<1>3. PICK d \in Wrong : \A c \in Wrong : d <= c
  <2>1. Wrong \subseteq Nat
    BY <1>2
  <2> HIDE DEF Wrong
  <2> QED
    BY <1>1, <2>1, LeastNatural
<1>4. d \in 0 .. e.seq - 1 /\ ~Has(e.seq - d)
  BY <1>3
<1>5. d # 0
  BY <1>2, <1>4
<1>6. d - 1 \in 0 .. e.seq - 1 /\ d - 1 \notin Wrong
  BY <1>2, <1>3, <1>4, <1>5
<1>7. PICK g \in S : g.incident = e.incident /\ g.seq = e.seq - (d - 1)
  BY <1>6
<1>8. g.seq # 1
  BY <1>2, <1>4, <1>7
<1>9. PICK h \in S : h.incident = g.incident /\ h.seq + 1 = g.seq
  BY <1>8 DEF LinkedIn
<1>10. h.seq = e.seq - d
  BY <1>2, <1>4, <1>7, <1>9 DEF IsEntry
<1> QED
  BY <1>4, <1>7, <1>9, <1>10

\* What the committed rows and those a session sees have in common.
Whole(S) == /\ IsFiniteSet(S) /\ Unforked(S)
            /\ \A e \in S : IsEntry(e) /\ LinkedIn(e, S)

\* The committed rows, and the rows a request sees, are whole.
LEMMA RowsWhole == ChainInv /\ FiniteRows => Whole(rows) /\ \A r \in Request : Whole(Visible(r))
<1> SUFFICES ASSUME ChainInv, FiniteRows PROVE Whole(rows) /\ \A r \in Request : Whole(Visible(r))
  OBVIOUS
<1>1. \A e \in AllRows : IsEntry(e)
  BY TypeOfRows DEF ChainInv
<1>2. Whole(rows)
  BY <1>1 DEF Whole, FiniteRows, ChainInv, RowsLinked, Unforked, AllRows
<1>3. ASSUME NEW r \in Request PROVE Whole(Visible(r))
  <2>1. IsFiniteSet(Visible(r))
    BY FS_Union DEF FiniteRows, Visible
  <2>2. Visible(r) \subseteq AllRows
    BY DEF Visible, AllRows
  <2>3. \A e \in Visible(r) : LinkedIn(e, Visible(r))
    <3>1. \A e \in rows : LinkedIn(e, Visible(r))
      BY LinkedMonotone DEF ChainInv, RowsLinked, Visible
    <3> QED
      BY <3>1 DEF ChainInv, RowsLinked, Visible
  <2> QED
    BY <1>1, <2>1, <2>2, <2>3 DEF Whole, ChainInv, RowsLinked, Unforked
<1> QED
  BY <1>2, <1>3

\* The rows of an incident are numbered from 1 to their count.
LEMMA Numbered ==
  ASSUME NEW S, Whole(S), NEW i
  PROVE  LET E == EntriesOf(S, i) IN
         /\ IsFiniteSet(E) /\ Cardinality(E) \in Nat
         /\ \A e \in E : e.seq \in 1 .. Cardinality(E)
         /\ \A n \in 1 .. Cardinality(E) : \E e \in E : e.seq = n
<1> DEFINE E == EntriesOf(S, i)
           c == Cardinality(E)
           D == {e.seq : e \in E}
           f == [e \in E |-> e.seq]
<1>1. IsFiniteSet(E) /\ c \in Nat
  <2>1. E \subseteq S
    BY DEF EntriesOf
  <2> QED
    BY <2>1, FS_Subset, FS_CardinalityType DEF Whole
<1>2. \A e \in E : e \in S /\ e.incident = i /\ e.seq \in Nat \ {0}
  BY DEF EntriesOf, Whole, IsEntry
<1>3. \A e, g \in E : e.seq = g.seq => e = g
  BY <1>2 DEF Whole, Unforked
<1>4. \A e \in E : \A n \in 1 .. e.seq : \E g \in E : g.seq = n
  <2> SUFFICES ASSUME NEW e \in E, NEW n \in 1 .. e.seq PROVE \E g \in E : g.seq = n
    OBVIOUS
  <2>1. \E g \in S : g.incident = e.incident /\ g.seq = n
    BY <1>2, Filled DEF Whole
  <2> QED
    BY <1>2, <2>1 DEF EntriesOf
<1> HIDE DEF E
<1>5. f \in Bijection(E, D)
  BY <1>3 DEF Bijection, Injection, Surjection, IsInjective
<1>6. IsFiniteSet(D) /\ Cardinality(D) = c
  <2>1. ExistsBijection(E, D)
    BY <1>5 DEF ExistsBijection
  <2> QED
    BY <1>1, <2>1, FS_Bijection
<1>7. \A e \in E : e.seq \in 1 .. c
  <2> SUFFICES ASSUME NEW e \in E PROVE e.seq <= c
    BY <1>1, <1>2
  <2>1. 1 .. e.seq \subseteq D
    BY <1>4
  <2>2. Cardinality(1 .. e.seq) <= Cardinality(D)
    BY <1>6, <2>1, FS_Subset
  <2>3. Cardinality(1 .. e.seq) = e.seq
    BY <1>2, FS_Interval
  <2> QED
    BY <1>6, <2>2, <2>3
<1>8. D = 1 .. c
  <2>1. IsFiniteSet(1 .. c) /\ Cardinality(1 .. c) = c
    BY <1>1, FS_Interval
  <2>2. D \subseteq 1 .. c
    BY <1>7
  <2>3. D \in SUBSET (1 .. c) /\ Cardinality(1 .. c) = Cardinality(D)
    BY <1>6, <2>1, <2>2
  <2> HIDE DEF D, c
  <2> QED
    BY <2>1, <2>3, FS_Subset
<1>9. \A n \in 1 .. c : \E e \in E : e.seq = n
  BY <1>8
<1> QED
  BY <1>1, <1>7, <1>9 DEF E

\* CustodyLog counts as FiniteSets does.
LEMMA SameCount == \A S : Promise!Cardinality(S) = Cardinality(S)
BY DEF Cardinality, Promise!Cardinality

\* The number with n numbers of S up to it is the n-th.
LEMMA NthIs ==
  ASSUME NEW S, S \subseteq Nat, IsFiniteSet(S), NEW k \in S
  PROVE  Promise!Nth(S, Cardinality({j \in S : j <= k})) = k
<1> DEFINE Upto(m) == {j \in S : j <= m}
<1>1. ASSUME NEW a \in S, NEW b \in S, a < b PROVE Cardinality(Upto(a)) # Cardinality(Upto(b))
  <2>0. a \in Nat /\ b \in Nat /\ \A j \in S : j \in Nat
    OBVIOUS
  <2>1. Upto(a) \subseteq Upto(b) /\ b \in Upto(b) /\ b \notin Upto(a)
    <3>1. ASSUME NEW j \in Nat, j <= a PROVE j <= b
      BY <1>1, <2>0, <3>1
    <3>2. b <= b /\ ~(b <= a)
      BY <1>1, <2>0
    <3> QED
      BY <2>0, <3>1, <3>2
  <2>2. IsFiniteSet(Upto(b))
    <3>1. Upto(b) \subseteq S
      OBVIOUS
    <3> QED
      BY <3>1, FS_Subset
  <2> HIDE DEF Upto
  <2> QED
    BY <2>1, <2>2, FS_Subset
<1>2. \A m \in S : Cardinality(Upto(m)) = Cardinality(Upto(k)) => m = k
  <2> SUFFICES ASSUME NEW m \in S, Cardinality(Upto(m)) = Cardinality(Upto(k)) PROVE m = k
    OBVIOUS
  <2>1. m \in Nat /\ k \in Nat
    OBVIOUS
  <2> HIDE DEF Upto
  <2>2. ~(m < k) /\ ~(k < m)
    BY <1>1
  <2> QED
    BY <2>1, <2>2
<1> DEFINE n == Cardinality(Upto(k))
           Fit(m) == Cardinality(Upto(m)) = n
<1>3. Promise!Nth(S, n) = CHOOSE m \in S : Fit(m)
  BY SameCount DEF Promise!Nth
<1>4. Fit(k) /\ \A m \in S : Fit(m) => m = k
  BY <1>2
<1> HIDE DEF Fit
<1>5. Promise!Nth(S, n) = k
  BY <1>3, <1>4
<1> QED
  BY <1>5, Zenon

\* f gives the place in its plan of every row that r has inserted.
Placed(r, f) ==
  /\ f \in [own[r] -> 1 .. (step[r] - 1)]
  /\ \A e \in own[r] : Plan[r][f[e]].incident = e.incident /\ Plan[r][f[e]].what = e.what
  /\ \A k \in 1 .. (step[r] - 1) : Plan[r][k].strict => \E e \in own[r] : f[e] = k
  /\ \A e, g \in own[r] : e.incident = g.incident /\ e.seq < g.seq => f[e] < f[g]

InOrder ==
  /\ \A r \in Request : step[r] <= Len(Plan[r]) + 1
  /\ \A r \in Request : Open(r) => \E f : Placed(r, f)
  /\ \A r \in Request : own[r] \cap rows = {}
  /\ \A r, q \in Request : r # q => own[r] \cap own[q] = {}

\* A request whose rows and whose place in its plan stay what they are.
LEMMA StillPlaced ==
  ASSUME NEW q, own'[q] = own[q], step'[q] = step[q], NEW f, Placed(q, f)
  PROVE  \E g : Placed(q, g)'
<1>1. Placed(q, f)'
  BY DEF Placed
<1> QED
  BY <1>1

\* Nothing is recorded at first.
LEMMA OrderInit == Init => InOrder
<1> SUFFICES ASSUME Init PROVE InOrder
  OBVIOUS
<1>1. ASSUME NEW r \in Request
      PROVE  step[r] = 1 /\ own[r] = {} /\ Len(Plan[r]) \in Nat
  BY CustodyAssumption DEF Init
<1>2. ASSUME NEW r \in Request PROVE Placed(r, [e \in own[r] |-> 1])
  BY <1>1 DEF Placed
<1>3. \A r \in Request : \E f : Placed(r, f)
  BY <1>2
<1> QED
  BY <1>1, <1>3 DEF InOrder

\* Reading statements move no row.
LEMMA OrderRead ==
  ASSUME ChainInv, InOrder, NEW r \in Request,
         CheckId(r) \/ SelectLast(r) \/ LockLast(r)
  PROVE  InOrder'
<1>1. /\ own' = own /\ rows' = rows /\ step' = step
      /\ \A q \in Request : Open(q)' => Open(q)
  <2>1. pc \in [Request -> StatementNames]
    BY DEF ChainInv, TypeOK
  <2> QED
    BY <2>1 DEF CheckId, SelectLast, LockLast, Open
<1>2. \A q \in Request : Open(q)' => \E f : Placed(q, f)'
  BY <1>1, StillPlaced DEF InOrder
<1> QED
  BY <1>1, <1>2 DEF InOrder

\* A request that rolls back keeps no row.
LEMMA OrderAbort ==
  ASSUME ChainInv, InOrder, NEW r \in Request, Abort(r)
  PROVE  InOrder'
<1>1. DOMAIN own = Request /\ pc \in [Request -> StatementNames]
  BY DEF ChainInv, TypeOK
<1>2. /\ rows' = rows /\ step' = step
      /\ \A q \in Request : own'[q] = IF q = r THEN {} ELSE own[q]
      /\ \A q \in Request : pc'[q] = IF q = r THEN "aborted" ELSE pc[q]
  BY <1>1 DEF Abort
<1>3. \A q \in Request : Open(q)' => q # r /\ Open(q)
  BY <1>2 DEF Open
<1>4. \A q \in Request : Open(q)' => \E f : Placed(q, f)'
  BY <1>2, <1>3, StillPlaced DEF InOrder
<1>5. \A q \in Request : step'[q] <= Len(Plan[q]) + 1
  BY <1>2 DEF InOrder
<1>6. /\ \A q \in Request : own'[q] \cap rows' = {}
      /\ \A q, p \in Request : q # p => own'[q] \cap own'[p] = {}
  BY <1>2 DEF InOrder
<1> QED
  BY <1>4, <1>5, <1>6 DEF InOrder

\* A committed request is no longer open, and its rows were no one else's.
LEMMA OrderCommit ==
  ASSUME ChainInv, InOrder, NEW r \in Request, Commit(r)
  PROVE  InOrder'
<1>1. DOMAIN own = Request /\ pc \in [Request -> StatementNames]
  BY DEF ChainInv, TypeOK
<1>2. /\ rows' = rows \cup own[r] /\ step' = step
      /\ \A q \in Request : own'[q] = IF q = r THEN {} ELSE own[q]
      /\ \A q \in Request : pc'[q] = IF q = r THEN "committed" ELSE pc[q]
  BY <1>1 DEF Commit
<1>3. \A q \in Request : Open(q)' => q # r /\ Open(q)
  BY <1>2 DEF Open
<1>4. \A q \in Request : Open(q)' => \E f : Placed(q, f)'
  BY <1>2, <1>3, StillPlaced DEF InOrder
<1>5. \A q \in Request : step'[q] <= Len(Plan[q]) + 1
  BY <1>2 DEF InOrder
<1>6. /\ \A q \in Request : own'[q] \cap rows' = {}
      /\ \A q, p \in Request : q # p => own'[q] \cap own'[p] = {}
  BY <1>2 DEF InOrder
<1> QED
  BY <1>4, <1>5, <1>6 DEF InOrder

\* Only an entry that is not strict is passed over.
LEMMA OrderSwallow ==
  ASSUME ChainInv, InOrder, NEW r \in Request, SwallowDuplicate(r)
  PROVE  InOrder'
<1>1. step \in [Request -> Nat \ {0}]
  BY DEF ChainInv, TypeOK
<1>2. /\ rows' = rows /\ own' = own /\ pc' = pc /\ pc[r] = "check" /\ HasEntry(r) /\ ~Current(r).strict
      /\ \A q \in Request : step'[q] = IF q = r THEN step[q] + 1 ELSE step[q]
  BY <1>1 DEF SwallowDuplicate
<1>3. Len(Plan[r]) \in Nat /\ step[r] \in Nat \ {0} /\ step[r] <= Len(Plan[r])
  BY <1>1, <1>2, CustodyAssumption DEF HasEntry
<1>4. \E f : Placed(r, f)'
  <2>1. PICK f : Placed(r, f)
    BY <1>2 DEF InOrder, Open
  <2>2. step'[r] - 1 = step[r] /\ 1 .. (step[r] - 1) \subseteq 1 .. step[r]
        /\ \A k \in 1 .. step[r] : k = step[r] \/ k \in 1 .. (step[r] - 1)
    BY <1>2, <1>3
  <2>3. own'[r] = own[r] /\ ~Plan[r][step[r]].strict
    BY <1>2 DEF Current
  <2>4. Placed(r, f)'
    <3>1. f \in [own'[r] -> 1 .. (step'[r] - 1)]
      BY <2>1, <2>2, <2>3 DEF Placed
    <3>2. \A k \in 1 .. (step'[r] - 1) : Plan[r][k].strict => \E e \in own'[r] : f[e] = k
      BY <2>1, <2>2, <2>3 DEF Placed
    <3> QED
      BY <2>1, <2>3, <3>1, <3>2 DEF Placed
  <2> QED
    BY <2>4
<1>5. \A q \in Request : Open(q)' => \E f : Placed(q, f)'
  <2> SUFFICES ASSUME NEW q \in Request, Open(q)', q # r PROVE \E f : Placed(q, f)'
    BY <1>4
  <2>1. Open(q) /\ step'[q] = step[q] /\ own'[q] = own[q]
    BY <1>2 DEF Open
  <2> QED
    BY <2>1, StillPlaced DEF InOrder
<1>6. \A q \in Request : step'[q] <= Len(Plan[q]) + 1
  BY <1>2, <1>3 DEF InOrder
<1> QED
  BY <1>2, <1>5, <1>6 DEF InOrder

\* The new row is the last of its incident that the session sees.
LEMMA NewRowIsLast ==
  ASSUME ChainInv, FiniteRows, NEW r \in Request, Insert(r)
  PROVE  LET e == NewEntry(Current(r), last[r]) IN
         \A g \in Visible(r) : g.incident = e.incident => g.seq < e.seq
<1> DEFINE e == NewEntry(Current(r), last[r])
<1>1. /\ pc[r] = "insert" /\ ~Clash(e, Visible(r))
  BY DEF Insert
<1>2. last[r] = None \/ (last[r] \in Visible(r) /\ last[r].incident = Current(r).incident)
  BY <1>1 DEF ChainInv, BuildsOnVisible
<1>3. e.incident = Current(r).incident /\ e.seq = NextSequence(last[r])
  BY DEF NewEntry
<1>4. Whole(Visible(r))
  BY RowsWhole
<1>5. e.seq \in Nat \ {0}
  BY <1>2, <1>3, <1>4 DEF NextSequence, Whole, IsEntry
<1> HIDE DEF e
<1> SUFFICES ASSUME NEW g \in Visible(r), g.incident = e.incident, ~(g.seq < e.seq) PROVE FALSE
  BY DEF e
<1>6. e.seq \in 1 .. g.seq
  BY <1>4, <1>5 DEF Whole, IsEntry
<1>7. \E h \in Visible(r) : h.incident = g.incident /\ h.seq = e.seq
  BY <1>4, <1>6, Filled DEF Whole
<1> QED
  BY <1>1, <1>7 DEF Clash

\* The new row takes the current place of the plan, behind the earlier ones.
LEMMA OrderInsert ==
  ASSUME ChainInv, FiniteRows, InOrder, NEW r \in Request, Insert(r)
  PROVE  InOrder'
<1> DEFINE e == NewEntry(Current(r), last[r])
<1>1. /\ step \in [Request -> Nat \ {0}] /\ DOMAIN own = Request /\ pc \in [Request -> StatementNames]
  BY DEF ChainInv, TypeOK
<1>2. /\ rows' = rows /\ pc[r] = "insert" /\ ~Clash(e, Visible(r)) /\ ~Clash(e, Pending(r))
      /\ \A q \in Request : step'[q] = IF q = r THEN step[q] + 1 ELSE step[q]
      /\ \A q \in Request : own'[q] = IF q = r THEN own[q] \cup {e} ELSE own[q]
      /\ \A q \in Request : pc'[q] = IF q = r THEN "check" ELSE pc[q]
  BY <1>1 DEF Insert
<1>3. step[r] \in 1 .. Len(Plan[r]) /\ Len(Plan[r]) \in Nat
  BY <1>2, CustodyAssumption DEF ChainInv, BuildsOnVisible
<1>4. e.incident = Plan[r][step[r]].incident /\ e.what = Plan[r][step[r]].what
  BY DEF NewEntry, Current
<1>5. \A g \in own[r] : g.incident = e.incident => g.seq < e.seq
  BY NewRowIsLast DEF Visible
<1>6. \A g \in AllRows : g # e
  <2>1. \A g \in AllRows : g \in Visible(r) \/ g \in Pending(r)
    BY DEF AllRows, Visible, Pending
  <2> QED
    BY <1>2, <2>1 DEF Clash
<1> HIDE DEF e
<1>7. \A q \in Request : e \notin own[q] /\ e \notin rows
  BY <1>6 DEF AllRows
<1>8. \E f : Placed(r, f)'
  <2>1. PICK f : Placed(r, f)
    BY <1>2 DEF InOrder, Open
  <2> DEFINE k == step[r]
  <2>2. /\ k \in Nat \ {0} /\ step'[r] - 1 = k /\ own'[r] = own[r] \cup {e} /\ e \notin own[r]
        /\ \A x \in own[r] : f[x] \in 1 .. (k - 1)
        /\ \A j \in 1 .. k : j = k \/ j \in 1 .. (k - 1)
    <3>1. k \in Nat \ {0} /\ step'[r] = k + 1
      BY <1>2, <1>3
    <3>2. own'[r] = own[r] \cup {e} /\ e \notin own[r]
      BY <1>2, <1>7
    <3>3. \A x \in own[r] : f[x] \in 1 .. (k - 1)
      BY <2>1 DEF Placed
    <3> QED
      BY <3>1, <3>2, <3>3
  <2>3. PICK h : h \in [own'[r] -> 1 .. (step'[r] - 1)] /\ h[e] = k /\ \A x \in own[r] : h[x] = f[x]
    <3> DEFINE g == [x \in own'[r] |-> IF x = e THEN k ELSE f[x]]
    <3>1. g \in [own'[r] -> 1 .. (step'[r] - 1)] /\ g[e] = k /\ \A x \in own[r] : g[x] = f[x]
      BY <2>2
    <3> QED
      BY <3>1
  <2>4. \A x \in own'[r] : Plan[r][h[x]].incident = x.incident /\ Plan[r][h[x]].what = x.what
    BY <1>4, <2>1, <2>2, <2>3 DEF Placed
  <2>5. \A j \in 1 .. (step'[r] - 1) : Plan[r][j].strict => \E x \in own'[r] : h[x] = j
    BY <2>1, <2>2, <2>3 DEF Placed
  <2> HIDE DEF k
  <2>6. ASSUME NEW x \in own'[r], NEW g \in own'[r], x.incident = g.incident, x.seq < g.seq
        PROVE  h[x] < h[g]
    <3>0. \A y \in own'[r] : y.seq \in Nat
      <4>1. ChainInv'
        BY InsertStep
      <4>2. \A y \in AllRows' : IsEntry(y)
        BY <4>1, TypeOfRows DEF ChainInv, TypeOK, AllRows, IsEntry
      <4> QED
        BY <4>2 DEF AllRows, IsEntry
    <3>1. CASE x \in own[r] /\ g \in own[r]
      BY <2>1, <2>3, <2>6, <3>1 DEF Placed
    <3>2. CASE x \in own[r] /\ g = e
      BY <2>2, <2>3, <3>2
    <3>3. CASE x = e /\ g \in own[r]
      BY <1>5, <2>2, <2>6, <3>0, <3>3
    <3>4. CASE x = e /\ g = e
      BY <2>6, <3>0, <3>4
    <3> QED
      BY <2>2, <3>1, <3>2, <3>3, <3>4
  <2>7. Placed(r, h)'
    BY <2>3, <2>4, <2>5, <2>6 DEF Placed
  <2> QED
    BY <2>7
<1>9. \A q \in Request : Open(q)' => \E f : Placed(q, f)'
  <2> SUFFICES ASSUME NEW q \in Request, Open(q)', q # r PROVE \E f : Placed(q, f)'
    BY <1>8
  <2>1. Open(q) /\ step'[q] = step[q] /\ own'[q] = own[q]
    BY <1>2 DEF Open
  <2> QED
    BY <2>1, StillPlaced DEF InOrder
<1>10. \A q \in Request : step'[q] <= Len(Plan[q]) + 1
  BY <1>2, <1>3 DEF InOrder
<1>11. /\ \A q \in Request : own'[q] \cap rows' = {}
       /\ \A q, p \in Request : q # p => own'[q] \cap own'[p] = {}
  BY ZenonT(60), <1>2, <1>7 DEF InOrder
<1> QED
  BY <1>9, <1>10, <1>11 DEF InOrder

\* Rows of an open request are in the order of its plan.
LEMMA OrderInvariance == Spec => []InOrder
<1>1. ChainInv /\ FiniteRows /\ InOrder /\ [Next]_vars => InOrder'
  <2> SUFFICES ASSUME ChainInv, FiniteRows, InOrder, [Next]_vars PROVE InOrder'
    OBVIOUS
  <2>1. ASSUME NEW r \in Request, Step(r) \/ Fail(r) PROVE InOrder'
    <3>1. CASE CheckId(r) \/ SelectLast(r) \/ LockLast(r)
      BY <3>1, OrderRead
    <3>2. CASE RefuseDuplicate(r) \/ InsertFails(r) \/ Fail(r)
      BY <3>2, OrderAbort DEF RefuseDuplicate, InsertFails, Fail
    <3>3. CASE SwallowDuplicate(r)
      BY <3>3, OrderSwallow
    <3>4. CASE Insert(r)
      BY <3>4, OrderInsert
    <3>5. CASE Commit(r)
      BY <3>5, OrderCommit
    <3> QED
      BY <2>1, <3>1, <3>2, <3>3, <3>4, <3>5 DEF Step
  <2>2. CASE UNCHANGED vars
    <3>1. own' = own /\ rows' = rows /\ step' = step /\ pc' = pc
      BY <2>2 DEF vars
    <3>2. \A q \in Request : Open(q)' => \E f : Placed(q, f)'
      BY <3>1, StillPlaced DEF InOrder, Open
    <3> QED
      BY <3>1, <3>2 DEF InOrder
  <2> QED
    BY <2>1, <2>2 DEF Next, AllEnded
<1> QED
  BY <1>1, OrderInit, ChainInvariance, FiniteInvariance, PTL DEF Spec

\* g lists the m numbers of K in increasing order.
Enumerates(g, m, K) ==
  /\ m \in Nat /\ K \subseteq Nat /\ g \in [1 .. m -> K]
  /\ \A k \in K : \E n \in 1 .. m : g[n] = k
  /\ \A a, b \in 1 .. m : a < b => g[a] < g[b]

\* The values of an increasing enumeration are the first, the second, ... of its
\* range.
LEMMA NthOfIncreasing ==
  ASSUME NEW m, NEW K, NEW g, Enumerates(g, m, K)
  PROVE  /\ Promise!Cardinality(K) = m
         /\ \A n \in 1 .. m : Promise!Nth(K, n) = g[n]
<1> USE DEF Enumerates
<1>1. \A n \in 1 .. m : g[n] \in Nat
  OBVIOUS
<1>2. \A a, b \in 1 .. m : g[a] <= g[b] <=> a <= b
  <2> SUFFICES ASSUME NEW a \in 1 .. m, NEW b \in 1 .. m PROVE g[a] <= g[b] <=> a <= b
    OBVIOUS
  <2>1. g[a] \in Nat /\ g[b] \in Nat /\ (a < b \/ b < a \/ a = b)
    BY <1>1
  <2> QED
    BY <2>1
<1>3. g \in Bijection(1 .. m, K)
  BY <1>1, <1>2 DEF Bijection, Injection, Surjection, IsInjective
<1>4. IsFiniteSet(1 .. m) /\ Cardinality(1 .. m) = m
  BY FS_Interval
<1>5. IsFiniteSet(K) /\ Cardinality(K) = m
  <2>1. ExistsBijection(1 .. m, K)
    BY <1>3 DEF ExistsBijection
  <2>2. IsFiniteSet(K) /\ Cardinality(K) = Cardinality(1 .. m)
    BY <1>4, <2>1, FS_Bijection
  <2> QED
    BY <1>4, <2>2
<1>6. ASSUME NEW n \in 1 .. m PROVE Promise!Nth(K, n) = g[n]
  <2> DEFINE U == {j \in K : j <= g[n]}
             h == [a \in 1 .. n |-> g[a]]
  <2>1. \A a \in 1 .. n : a \in 1 .. m /\ h[a] = g[a]
    OBVIOUS
  <2>2. \A a \in 1 .. n : h[a] \in U
    BY <1>2, <2>1
  <2>3. \A j \in U : \E a \in 1 .. n : h[a] = j
    <3> SUFFICES ASSUME NEW j \in U PROVE \E a \in 1 .. n : h[a] = j
      OBVIOUS
    <3>1. PICK a \in 1 .. m : g[a] = j
      OBVIOUS
    <3>2. a <= n
      BY <1>2, <3>1
    <3> QED
      BY <3>1, <3>2
  <2>4. \A a, b \in 1 .. n : h[a] = h[b] => a = b
    BY <1>2, <2>1
  <2>5. DOMAIN h = 1 .. n
    OBVIOUS
  <2> HIDE DEF U
  <2>6. h \in Bijection(1 .. n, U)
    BY <2>2, <2>3, <2>4 DEF Bijection, Injection, Surjection, IsInjective
  <2>7. Cardinality(U) = n
    <3>1. ExistsBijection(1 .. n, U)
      BY <2>6 DEF ExistsBijection
    <3>2. IsFiniteSet(1 .. n) /\ Cardinality(1 .. n) = n
      BY FS_Interval
    <3>3. Cardinality(U) = Cardinality(1 .. n)
      BY <3>1, <3>2, FS_Bijection
    <3> QED
      BY <3>2, <3>3
  <2>8. Promise!Nth(K, Cardinality({j \in K : j <= g[n]})) = g[n]
    BY ZenonT(60), <1>5, NthIs
  <2> QED
    BY <2>7, <2>8 DEF U
<1> QED
  BY <1>5, <1>6, SameCount

\* The first c values of u are those of s, the next m those of t.
Follows(u, s, t, c, m, V) ==
  /\ c \in Nat /\ m \in Nat
  /\ s \in [1 .. c -> V] /\ t \in [1 .. m -> V] /\ u \in [1 .. (c + m) -> V]
  /\ \A k \in 1 .. c : u[k] = s[k]
  /\ \A n \in 1 .. m : u[c + n] = t[n]

\* A sequence given by its first part and the rest is their concatenation.
LEMMA Joined ==
  ASSUME NEW V, NEW c, NEW m, NEW s, NEW t, NEW u, Follows(u, s, t, c, m, V)
  PROVE  u = s \o t
<1> USE DEF Follows
<1>1. s \in Seq(V) /\ t \in Seq(V) /\ Len(s) = c /\ Len(t) = m
  OBVIOUS
<1>2. /\ s \o t \in Seq(V) /\ Len(s \o t) = c + m
      /\ \A k \in 1 .. (c + m) : (s \o t)[k] = IF k <= c THEN s[k] ELSE t[k - c]
  BY ZenonT(60), <1>1, ConcatProperties
<1>3. \A k \in 1 .. (c + m) : (s \o t)[k] = u[k]
  <2> SUFFICES ASSUME NEW k \in 1 .. (c + m) PROVE (s \o t)[k] = u[k]
    OBVIOUS
  <2>1. CASE k <= c
    BY <1>2, <2>1
  <2>2. CASE k > c
    <3>1. k - c \in 1 .. m /\ c + (k - c) = k
      BY <2>2
    <3> QED
      BY <1>2, <2>2, <3>1
  <2> QED
    BY <2>1, <2>2
<1>4. s \o t = [k \in 1 .. (c + m) |-> (s \o t)[k]]
  BY <1>2, LenProperties
<1> QED
  BY <1>3, <1>4

\* A row is the only one of its incident with its number.
LEMMA RowOfNumber ==
  ASSUME NEW S, Whole(S), NEW i, NEW e \in EntriesOf(S, i)
  PROVE  (CHOOSE g \in EntriesOf(S, i) : g.seq = e.seq) = e
<1>1. \A g \in EntriesOf(S, i) : g.seq = e.seq => g = e
  BY DEF Whole, Unforked, EntriesOf
<1> HIDE DEF EntriesOf
<1> QED
  BY <1>1

\* The numbers of a request's rows, when it commits, follow those of the
\* committed rows of the incident.
LEMMA OwnNumbers ==
  ASSUME ChainInv, FiniteRows, InOrder, NEW r \in Request, NEW i
  PROVE  LET c == Cardinality(EntriesOf(rows, i))
             d == Cardinality(EntriesOf(Visible(r), i))
             O == EntriesOf(own[r], i)
         IN /\ c \in Nat /\ d \in Nat /\ c <= d
            /\ \A e \in O : e.seq \in (c + 1) .. d
            /\ \A n \in (c + 1) .. d : \E e \in O : e.seq = n
            /\ \A e, g \in O : e.seq = g.seq => e = g
            /\ \A k \in 1 .. c : \E e \in EntriesOf(rows, i) : e.seq = k
<1> DEFINE E == EntriesOf(rows, i)
           F == EntriesOf(Visible(r), i)
           O == EntriesOf(own[r], i)
           c == Cardinality(E)
           d == Cardinality(F)
<1>1. Whole(rows) /\ Whole(Visible(r))
  BY RowsWhole
<1>2. /\ IsFiniteSet(E) /\ c \in Nat /\ \A e \in E : e.seq \in 1 .. c
      /\ \A n \in 1 .. c : \E e \in E : e.seq = n
  BY <1>1, Numbered
<1>3. /\ IsFiniteSet(F) /\ d \in Nat /\ \A e \in F : e.seq \in 1 .. d
      /\ \A n \in 1 .. d : \E e \in F : e.seq = n
  BY <1>1, Numbered
<1>4. E \subseteq F /\ O \subseteq F /\ E \cap O = {} /\ \A e \in F : e \in E \/ e \in O
  BY DEF EntriesOf, Visible, InOrder
<1>5. \A e, g \in F : e.seq = g.seq => e = g
  BY <1>1 DEF Whole, Unforked, EntriesOf
<1> HIDE DEF E, F, O
<1>6. c <= d
  BY <1>3, <1>4, FS_Subset
<1> HIDE DEF c, d
<1>7. \A e \in O : e.seq \in (c + 1) .. d
  <2> SUFFICES ASSUME NEW e \in O PROVE e.seq \in (c + 1) .. d
    OBVIOUS
  <2>1. e.seq \in 1 .. d
    BY <1>3, <1>4
  <2>2. e.seq \notin 1 .. c
    BY <1>2, <1>4, <1>5
  <2> QED
    BY <1>2, <1>3, <2>1, <2>2
<1>8. \A n \in (c + 1) .. d : \E e \in O : e.seq = n
  <2> SUFFICES ASSUME NEW n \in (c + 1) .. d PROVE \E e \in O : e.seq = n
    OBVIOUS
  <2>1. n \in 1 .. d /\ n \notin 1 .. c
    BY <1>2, <1>3
  <2>2. PICK e \in F : e.seq = n
    BY <1>3, <2>1
  <2> QED
    BY <1>2, <1>4, <2>1, <2>2
<1>9. \A e, g \in O : e.seq = g.seq => e = g
  BY <1>4, <1>5
<1> QED
  BY <1>2, <1>3, <1>6, <1>7, <1>8, <1>9 DEF c, d, E, F, O

\* A commit appends to every log the entries of the request's plan that it did not
\* leave out, in the order of the plan.
LEMMA Appends ==
  ASSUME ChainInv, FiniteRows, InOrder, NEW r \in Request, Commit(r)
  PROVE  \E skipped \in SUBSET Promise!Optional(r) :
           \A i \in Incident : LogOf(i)' = LogOf(i) \o Promise!Block(r, i, skipped)
<1>1. rows' = Visible(r) /\ pc[r] = "check" /\ ~HasEntry(r)
  BY DEF Commit, Visible
<1> DEFINE last_ == Len(Plan[r])
<1>2. last_ \in Nat /\ step[r] - 1 = last_
  <2>1. last_ \in Nat /\ step[r] \in Nat /\ step[r] <= last_ + 1 /\ ~(step[r] <= last_)
    BY <1>1, CustodyAssumption DEF HasEntry, InOrder, ChainInv, TypeOK
  <2> QED
    BY <2>1
<1>3. PICK f : Placed(r, f)
  BY <1>1 DEF InOrder, Open
<1> DEFINE T == {f[e] : e \in own[r]}
           skipped == (1 .. last_) \ T
<1>4. /\ f \in [own[r] -> 1 .. last_]
      /\ \A e \in own[r] : Plan[r][f[e]].incident = e.incident /\ Plan[r][f[e]].what = e.what
      /\ \A k \in 1 .. last_ : Plan[r][k].strict => k \in T
      /\ \A e, g \in own[r] : e.incident = g.incident /\ e.seq < g.seq => f[e] < f[g]
  BY <1>2, <1>3 DEF Placed
<1>5. skipped \in SUBSET Promise!Optional(r)
  BY <1>4 DEF Promise!Optional
<1>6. \A k \in 1 .. last_ : k \notin skipped <=> k \in T
  OBVIOUS
<1> HIDE DEF skipped
<1>7. ASSUME NEW i \in Incident PROVE LogOf(i)' = LogOf(i) \o Promise!Block(r, i, skipped)
  <2> DEFINE c == Cardinality(EntriesOf(rows, i))
             d == Cardinality(EntriesOf(Visible(r), i))
             O == EntriesOf(own[r], i)
             K == Promise!Taken(r, i, skipped)
             B == Promise!Block(r, i, skipped)
             m == d - c
  <2>1. /\ c \in Nat /\ d \in Nat /\ c <= d
        /\ \A e \in O : e.seq \in (c + 1) .. d
        /\ \A n \in (c + 1) .. d : \E e \in O : e.seq = n
        /\ \A e, g \in O : e.seq = g.seq => e = g
        /\ \A k \in 1 .. c : \E e \in EntriesOf(rows, i) : e.seq = k
    BY OwnNumbers
  <2>2. O \subseteq own[r] /\ \A e \in own[r] : e \in O <=> e.incident = i
    BY DEF EntriesOf
  <2>3. \A k : k \in K <=> \E e \in O : k = f[e]
    BY <1>4, <1>6, <2>2 DEF Promise!Taken
  <2> HIDE DEF K, O, c, d
  <2>4. K \subseteq Nat
    BY <1>2, <1>4, <2>2, <2>3
  <2>5. m \in Nat /\ c + m = d /\ \A n \in 1 .. m : c + n \in (c + 1) .. d
    BY <2>1
  <2> HIDE DEF m
  <2>6. PICK row \in [1 .. m -> O] : \A n \in 1 .. m : row[n].seq = c + n
    <3> DEFINE w == [n \in 1 .. m |-> CHOOSE e \in O : e.seq = c + n]
    <3>1. ASSUME NEW n \in 1 .. m PROVE w[n] \in O /\ w[n].seq = c + n
      BY <2>1, <2>5
    <3> QED
      BY <3>1
  <2>7. PICK g \in [1 .. m -> K] : \A n \in 1 .. m : g[n] = f[row[n]]
    <3> DEFINE w == [n \in 1 .. m |-> f[row[n]]]
    <3>1. w \in [1 .. m -> K] /\ \A n \in 1 .. m : w[n] = f[row[n]]
      BY <2>3, <2>6
    <3> QED
      BY <3>1
  <2>8. \A k \in K : \E n \in 1 .. m : g[n] = k
    <3> SUFFICES ASSUME NEW k \in K PROVE \E n \in 1 .. m : g[n] = k
      OBVIOUS
    <3>1. PICK e \in O : k = f[e]
      BY <2>3
    <3>2. e.seq - c \in 1 .. m /\ c + (e.seq - c) = e.seq
      <4>1. e.seq \in (c + 1) .. d
        BY <2>1
      <4> QED
        BY <2>1, <2>5, <4>1
    <3>3. row[e.seq - c] = e
      BY <2>1, <2>6, <3>2
    <3> QED
      BY <2>7, <3>1, <3>2, <3>3
  <2>9. \A a, b \in 1 .. m : a < b => g[a] < g[b]
    <3> SUFFICES ASSUME NEW a \in 1 .. m, NEW b \in 1 .. m, a < b PROVE g[a] < g[b]
      OBVIOUS
    <3>1. row[a] \in own[r] /\ row[b] \in own[r] /\ row[a].incident = row[b].incident
      BY <2>2, <2>6
    <3>2. row[a].seq < row[b].seq
      <4>1. row[a].seq = c + a /\ row[b].seq = c + b
        BY <2>6
      <4> QED
        BY <2>1, <2>5, <4>1
    <3> QED
      BY <1>4, <2>7, <3>1, <3>2
  <2>10. Promise!Cardinality(K) = m /\ \A n \in 1 .. m : Promise!Nth(K, n) = g[n]
    <3>1. Enumerates(g, m, K)
      BY <2>4, <2>5, <2>7, <2>8, <2>9 DEF Enumerates
    <3> QED
      BY <3>1, NthOfIncreasing
  <2>11. B = [n \in 1 .. m |-> row[n].what]
    <3>1. B = [n \in 1 .. Promise!Cardinality(K) |-> Plan[r][Promise!Nth(K, n)].what]
      BY DEF Promise!Block, K
    <3>2. \A n \in 1 .. m : Plan[r][g[n]].what = row[n].what
      BY <1>4, <2>2, <2>6, <2>7
    <3> HIDE DEF B
    <3> QED
      BY <2>10, <3>1, <3>2
  <2> HIDE DEF B
  <2> DEFINE u == LogOf(i)'
             s == LogOf(i)
             V == {s[k] : k \in 1 .. c} \cup {row[n].what : n \in 1 .. m}
  <2>12. /\ s = [k \in 1 .. c |-> (CHOOSE e \in EntriesOf(rows, i) : e.seq = k).what]
         /\ u = [k \in 1 .. d |-> (CHOOSE e \in EntriesOf(Visible(r), i) : e.seq = k).what]
    BY <1>1 DEF LogOf, c, d
  <2>13. Whole(rows) /\ Whole(Visible(r))
    BY RowsWhole
  <2>14. ASSUME NEW k \in 1 .. c PROVE u[k] = s[k]
    <3>1. PICK e \in EntriesOf(rows, i) : e.seq = k
      BY <2>1
    <3>2. e \in EntriesOf(Visible(r), i)
      BY DEF EntriesOf, Visible
    <3>3. /\ (CHOOSE x \in EntriesOf(rows, i) : x.seq = k) = e
          /\ (CHOOSE x \in EntriesOf(Visible(r), i) : x.seq = k) = e
      BY <2>13, <3>1, <3>2, RowOfNumber
    <3>4. k \in 1 .. d
      BY <2>1
    <3> QED
      BY <2>12, <3>3, <3>4
  <2>15. ASSUME NEW n \in 1 .. m PROVE u[c + n] = B[n]
    <3>1. row[n] \in EntriesOf(Visible(r), i) /\ row[n].seq = c + n
      BY <2>6 DEF O, EntriesOf, Visible
    <3>2. (CHOOSE x \in EntriesOf(Visible(r), i) : x.seq = c + n) = row[n]
      BY <2>13, <3>1, RowOfNumber
    <3>3. c + n \in 1 .. d
      BY <2>1, <2>5
    <3> QED
      BY <2>11, <2>12, <3>2, <3>3
  <2>16. /\ DOMAIN s = 1 .. c /\ s = [k \in 1 .. c |-> s[k]]
         /\ DOMAIN u = 1 .. (c + m) /\ u = [k \in 1 .. (c + m) |-> u[k]]
    BY <2>5, <2>12
  <2> HIDE DEF u, s
  <2>17. \A k \in 1 .. (c + m) : k \in 1 .. c \/ (k - c \in 1 .. m /\ k = c + (k - c))
    BY <2>1, <2>5
  <2>18. s \in [1 .. c -> V] /\ B \in [1 .. m -> V]
    BY <2>11, <2>16
  <2>19. u \in [1 .. (c + m) -> V]
    <3>1. \A k \in 1 .. (c + m) : u[k] \in V
      BY <2>11, <2>14, <2>15, <2>17
    <3> QED
      BY <2>16, <3>1
  <2> HIDE DEF V
  <2>20. u = s \o B
    <3>1. Follows(u, s, B, c, m, V)
      BY <2>1, <2>5, <2>14, <2>15, <2>18, <2>19 DEF Follows
    <3> QED
      BY <3>1, Joined
  <2> QED
    BY <2>20 DEF u, s, B
<1> QED
  BY <1>5, <1>7

\* Every step of the table is a step of the log or leaves the log as it is.
LEMMA LogStep ==
  ChainInv /\ FiniteRows /\ InOrder /\ [Next]_vars =>
    [Promise!LogNext]_<<[i \in Incident |-> LogOf(i)], {r \in Request : ~Open(r)}>>
<1> DEFINE logs == [i \in Incident |-> LogOf(i)]
           done == {r \in Request : ~Open(r)}
<1> SUFFICES ASSUME ChainInv, FiniteRows, InOrder, [Next]_vars
             PROVE  \/ \E r \in Request \ done : Promise!Record(r) \/ Promise!Refuse(r)
                    \/ logs' = logs /\ done' = done
  BY DEF Promise!LogNext
<1>1. pc \in [Request -> StatementNames]
  BY DEF ChainInv, TypeOK
<1>2. rows' = rows => logs' = logs
  BY DEF LogOf, EntriesOf
<1>3. ASSUME NEW r \in Request, Abort(r), Open(r) PROVE Promise!Refuse(r) /\ r \in Request \ done
  <2>1. rows' = rows /\ \A q \in Request : pc'[q] = IF q = r THEN "aborted" ELSE pc[q]
    BY <1>1, <1>3 DEF Abort
  <2>2. done' = done \cup {r}
    BY <2>1 DEF Open
  <2> QED
    BY <1>2, <1>3, <2>1, <2>2 DEF Promise!Refuse
<1>4. ASSUME NEW r \in Request, Commit(r) PROVE Promise!Record(r) /\ r \in Request \ done
  <2>1. \A q \in Request : pc'[q] = IF q = r THEN "committed" ELSE pc[q]
    BY <1>1, <1>4 DEF Commit
  <2>2. done' = done \cup {r} /\ r \notin done
    BY <1>4, <2>1 DEF Open, Commit
  <2>3. PICK skipped \in SUBSET Promise!Optional(r) :
          \A i \in Incident : LogOf(i)' = LogOf(i) \o Promise!Block(r, i, skipped)
    BY <1>4, Appends
  <2>4. logs' = [i \in Incident |-> LogOf(i)']
    OBVIOUS
  <2>5. logs' = [i \in Incident |-> logs[i] \o Promise!Block(r, i, skipped)]
    BY <2>3, <2>4
  <2> QED
    BY <2>2, <2>5 DEF Promise!Record
<1>5. ASSUME NEW r \in Request, CheckId(r) \/ SwallowDuplicate(r) \/ SelectLast(r) \/ LockLast(r) \/ Insert(r)
      PROVE  logs' = logs /\ done' = done
  <2>1. rows' = rows /\ \A q \in Request : Open(q)' <=> Open(q)
    BY <1>1, <1>5 DEF CheckId, SwallowDuplicate, SelectLast, LockLast, Insert, Open
  <2> QED
    BY <1>2, <2>1
<1>6. CASE UNCHANGED vars
  <2>1. rows' = rows /\ pc' = pc
    BY <1>6 DEF vars
  <2> QED
    BY <1>2, <2>1 DEF Open
<1>7. ASSUME NEW r \in Request, RefuseDuplicate(r) \/ InsertFails(r) \/ Fail(r)
      PROVE  Abort(r) /\ Open(r)
  BY <1>7 DEF RefuseDuplicate, InsertFails, Fail, Open
<1> HIDE DEF logs, done
<1> QED
  BY <1>3, <1>4, <1>5, <1>6, <1>7 DEF Next, Step, AllEnded

\* The table implements the append-only log of CustodyLog: however create_entry is
\* interleaved, a request that commits appends what it recorded to the end of each
\* incident's log as one block, in its own order and with every entry it insists
\* on, and one that fails appends nothing (crud/chain_of_custody.py 40-74).
THEOREM TableIsAppendOnlyLog == Spec => ImplementsCustodyLog
<1>1. Init => Promise!LogInit
  <2> SUFFICES ASSUME Init PROVE Promise!LogInit
    OBVIOUS
  <2>1. \A i \in Incident : EntriesOf(rows, i) = {}
    BY DEF Init, EntriesOf
  <2>2. \A i \in Incident : LogOf(i) = <<>>
    BY <2>1, FS_EmptySet DEF LogOf
  <2>3. {r \in Request : ~Open(r)} = {}
    BY DEF Init, Open
  <2> QED
    BY <2>2, <2>3 DEF Promise!LogInit
<1> QED
  BY <1>1, LogStep, ChainInvariance, FiniteInvariance, OrderInvariance, PTL
     DEF Spec, ImplementsCustodyLog, Promise!LogSpec
=============================================================================
