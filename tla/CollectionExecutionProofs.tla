---------------------- MODULE CollectionExecutionProofs ----------------------
(***************************************************************************)
(* The page of a collection, for any number of targets, calls in flight,   *)
(* lost answers and visits: a collection is started a second time only by  *)
(* requests handled at once, and its log is shown in order.                *)
(***************************************************************************)
EXTENDS CollectionExecution, FiniteSetTheorems, SequenceTheorems, WellFoundedInduction, TLAPS

-----------------------------------------------------------------------------
(* The inductive invariant.                                                *)

Status  == {"PENDING", "COLLECTION_IN_PROGRESS", "COLLECTION_COMPLETE", "COLLECTION_FAILED", "CLOSED"}
Answers == [status : Status, lines : Seq(Nat), jobs : SUBSET Job]
Calls   == [st : {"idle", "sent", "answered", "broken"},
            kind : {"none", "current", "start", "poll", "jobs", "cancel"},
            arg : Job \cup {Nothing}, try : 0..MAX_RETRIES, ok : BOOLEAN,
            res : Answers \cup {Nothing, Handled}, live : BOOLEAN]

\* A call that was answered well has an answer of its kind.
NetType ==
  /\ net \in [Slot -> Calls]
  /\ \A c \in Slot : net[c].ok => /\ net[c].st = "answered"
                                  /\ net[c].kind \in {"current", "poll", "jobs"} => net[c].res \in Answers

Told(c, k) == net[c].kind = k /\ net[c].ok

\* What drives the page: its timer, or one call whose end sets the timer or
\* makes the next such call.  There is one at most.
Drives(c) == net[c].live /\ net[c].kind \in {"current", "start", "poll"}
OneDriver ==
  /\ \A c, d \in Slot : Drives(c) /\ Drives(d) => c = d
  /\ exec.timer => \A c \in Slot : ~Drives(c)
  /\ ~mounted => exec = ExecInit /\ \A c \in Slot : ~net[c].live

\* A start leaves PENDING for ever, and before an overlap the handlers past
\* their read and the starts they make are one together.
StartsApart ==
  /\ starts > 0 => inc # "PENDING"
  /\ ~overlapped => starts + handling <= 1

Increasing(s) == \A i, j \in DOMAIN s : i < j => s[i] < s[j]

\* The last line the server counts as read.
Reach == base + cursor

\* The lines of an answer follow each other and all that the page shows; the
\* server has counted both.
LinesFollow ==
  /\ Increasing(exec.shown)
  /\ \A i \in DOMAIN exec.shown : exec.shown[i] <= Reach
  /\ \A c \in Slot : Told(c, "poll") =>
       LET l == net[c].res.lines IN
       /\ Increasing(l)
       /\ \A i \in DOMAIN l : l[i] <= Reach
       /\ net[c].live => \A i \in DOMAIN exec.shown, j \in DOMAIN l : exec.shown[i] < l[j]

ServerType ==
  /\ inc \in Status /\ job \in [Job -> Terminal \cup {"none", "pending", "active"}]
  /\ running \subseteq Job /\ base \in Nat /\ log \in 0..MaxLogs /\ cursor \in 0..MaxLogs
  /\ starts \in Nat /\ handling \in Nat /\ overlapped \in BOOLEAN
Execs == [started : BOOLEAN, complete : BOOLEAN, polling : BOOLEAN, timer : BOOLEAN,
          abort : {"no", "jobs", "cancels"},
          error : {"none", "start", "failed", "aborted", "abort"}, shown : Seq(Nat)]
PageType ==
  /\ fits \in BOOLEAN /\ mounted \in BOOLEAN /\ events \in 0..MaxEvents /\ exec \in Execs
  /\ faults \in 0..MaxFaults

PageInv ==
  /\ TypeOK /\ NetType /\ OneDriver /\ LinesFollow /\ StartsApart

-----------------------------------------------------------------------------
(* The operators of PageCalls.                                             *)

Kinds == {"none", "current", "start", "poll", "jobs", "cancel"}

\* Every non-empty set of naturals has a least element.
LEMMA LeastNatural ==
  ASSUME NEW S, S \subseteq Nat, S # {}
  PROVE  \E m \in S : \A n \in S : m <= n
<1>1. PICK m \in S : \A n \in S : ~(<<n, m>> \in OpToRel(<, Nat))
  BY NatLessThanWellFounded, WFMin
<1>2. \A n \in S : ~(n < m)
  BY <1>1 DEF OpToRel
<1>3. m \in Nat /\ \A n \in S : n \in Nat
  BY <1>1
<1>4. \A n \in S : m <= n
  BY <1>2, <1>3
<1> QED
  BY <1>1, <1>4

\* A call is put into a slot that is free.
LEMMA FreeSlot ==
  ASSUME NEW n, \E c \in Slot : n[c].st = "idle"
  PROVE  Least(FreeIn(n)) \in Slot /\ n[Least(FreeIn(n))].st = "idle"
<1> DEFINE last == Cardinality(Slot)
<1>0. Slot = 1..last
  BY CallsAssumption
<1> HIDE DEF last
<1>1. FreeIn(n) # {} /\ FreeIn(n) \subseteq Nat
  BY <1>0 DEF FreeIn
<1>2. \E c \in FreeIn(n) : \A d \in FreeIn(n) : c <= d
  BY <1>1, LeastNatural
<1>3. Least(FreeIn(n)) \in FreeIn(n)
  BY <1>2 DEF Least
<1> QED
  BY <1>3 DEF FreeIn

LEMMA RoomForOne == Room(1) => \E c \in Slot : net[c].st = "idle"
<1>1. FreeIn(net) = {} => Cardinality(FreeIn(net)) = 0
  BY FS_EmptySet
<1>2. Room(1) => FreeIn(net) # {}
  BY <1>1 DEF Room
<1> QED
  BY <1>2 DEF FreeIn

LEMMA NoCallType == NoCall \in Calls /\ ~NoCall.ok /\ ~NoCall.live /\ NoCall.st = "idle" /\ NoCall.kind = "none"
BY DEF NoCall, Calls, MAX_RETRIES

LEMMA NewCallType ==
  ASSUME NEW k \in Kinds, NEW a \in Job \cup {Nothing}, NEW l \in BOOLEAN
  PROVE  /\ NewCall(k, a, l) \in Calls /\ ~NewCall(k, a, l).ok
         /\ NewCall(k, a, l).kind = k /\ NewCall(k, a, l).live = l
<1> DEFINE n1 == [NoCall EXCEPT !.st = "sent"]
           n2 == [n1 EXCEPT !.kind = k]
           n3 == [n2 EXCEPT !.arg = a]
           n4 == [n3 EXCEPT !.try = 1]
<1>1. n1 \in Calls /\ ~n1.ok
  BY NoCallType DEF Calls
<1> HIDE DEF n1
<1>2. n2 \in Calls /\ ~n2.ok /\ n2.kind = k
  BY <1>1 DEF Calls, Kinds
<1> HIDE DEF n2
<1>3. n3 \in Calls /\ ~n3.ok /\ n3.kind = k
  BY <1>2 DEF Calls
<1> HIDE DEF n3
<1>4. n4 \in Calls /\ ~n4.ok /\ n4.kind = k
  BY <1>3 DEF Calls, MAX_RETRIES
<1>5. NewCall(k, a, l) = [n4 EXCEPT !.live = l]
  BY DEF NewCall, n1, n2, n3
<1> HIDE DEF n4
<1> QED
  BY <1>4, <1>5 DEF Calls

\* What putting a call into a free slot does.
LEMMA WithType ==
  ASSUME NEW n \in [Slot -> Calls], \E c \in Slot : n[c].st = "idle",
         NEW k \in Kinds, NEW l \in BOOLEAN
  PROVE  \E s \in Slot :
           /\ n[s].st = "idle"
           /\ With(n, k, Nothing, l) \in [Slot -> Calls]
           /\ \A q \in Slot : With(n, k, Nothing, l)[q] = IF q = s THEN NewCall(k, Nothing, l) ELSE n[q]
<1>1. Least(FreeIn(n)) \in Slot /\ n[Least(FreeIn(n))].st = "idle"
  BY FreeSlot
<1>2. NewCall(k, Nothing, l) \in Calls
  BY NewCallType
<1> QED
  BY <1>1, <1>2 DEF With

LEMMA WithoutType ==
  ASSUME NEW n \in [Slot -> Calls], NEW c \in Slot
  PROVE  /\ Without(n, c) \in [Slot -> Calls]
         /\ \A q \in Slot : Without(n, c)[q] = IF q = c THEN NoCall ELSE n[q]
BY NoCallType DEF Without

\* The lines of an answer, and those on the page.
LEMMA LinesType ==
  ASSUME NEW l \in Seq(Nat)
  PROVE  Len(l) \in Nat /\ DOMAIN l = 1..Len(l) /\ \A i \in DOMAIN l : l[i] \in Nat
<1>1. Len(l) \in Nat /\ DOMAIN l = 1..Len(l) /\ l \in [1..Len(l) -> Nat]
  BY LenProperties
<1> QED
  BY <1>1

-----------------------------------------------------------------------------
(* Initial states, and what kinds of steps preserve.                       *)

LEMMA TypeParts ==
  /\ NetType => (TypeOK <=> ServerType /\ PageType)
  /\ NetType' => (TypeOK' <=> ServerType' /\ PageType')
<1>1. /\ NetType => (CallsTypeOK <=> faults \in 0..MaxFaults)
      /\ NetType' => (CallsTypeOK' <=> faults' \in 0..MaxFaults)
  <2>1. \A q \in Calls : DOMAIN q = DOMAIN NoCall
    BY DEF Calls, NoCall
  <2>2. \A q \in Calls : q.st \in {"idle", "sent", "answered", "broken"} /\ q.try \in 0..MAX_RETRIES
    BY DEF Calls
  <2> QED
    BY <2>1, <2>2 DEF NetType, CallsTypeOK
<1> QED
  BY <1>1 DEF TypeOK, ServerType, PageType, Status, Execs

LEMMA ExecInitType ==
  /\ ExecInit \in Execs /\ ~ExecInit.timer /\ ExecInit.shown = <<>>
BY DEF ExecInit, Execs

\* A step of the page or of the network that brings no new answer.
NoNews == \A c \in Slot : net'[c].ok => /\ net[c].ok /\ net'[c].kind = net[c].kind
                                        /\ net'[c].res = net[c].res
                                        /\ net'[c].live => net[c].live

LEMMA ClientStep ==
  ASSUME PageInv, UNCHANGED backend, NetType', PageType', OneDriver', LinesFollow'
  PROVE  PageInv'
<1>1. UNCHANGED <<inc, job, running, base, log, cursor, starts, handling, overlapped>>
  BY DEF backend, lines, start
<1>2. ServerType
  BY TypeParts DEF PageInv
<1>3. ServerType'
  BY <1>1, <1>2 DEF ServerType
<1>4. StartsApart'
  BY <1>1 DEF PageInv, StartsApart
<1> QED
  BY <1>3, <1>4, TypeParts DEF PageInv

LEMMA LinesKept ==
  ASSUME LinesFollow, NoNews, UNCHANGED <<base, cursor>>, exec'.shown = exec.shown \/ exec'.shown = <<>>
  PROVE  LinesFollow'
<1>1. \A c \in Slot : Told(c, "poll")' => /\ Told(c, "poll") /\ net'[c].res.lines = net[c].res.lines
                                          /\ net'[c].live => net[c].live
  BY DEF NoNews, Told
<1>2. CASE exec'.shown = exec.shown
  BY <1>1, <1>2 DEF LinesFollow, Increasing, Reach
<1>3. CASE exec'.shown = <<>>
  <2>1. DOMAIN exec'.shown = {}
    BY <1>3
  <2> QED
    BY <1>1, <2>1 DEF LinesFollow, Increasing, Reach
<1> QED
  BY <1>2, <1>3

\* One call is answered, breaks or is sent again.
Moved(c, m) ==
  /\ net' = [net EXCEPT ![c] = m]
  /\ m \in Calls /\ m.kind = net[c].kind /\ m.live = net[c].live
  /\ m.ok => m.st = "answered" /\ (m.kind \in {"current", "poll", "jobs"} => m.res \in Answers)

LEMMA CallMoves ==
  ASSUME PageInv, NEW c \in Slot, NEW m, Moved(c, m), UNCHANGED client, faults' \in 0..MaxFaults
  PROVE  NetType' /\ OneDriver' /\ PageType'
<1>1. \A q \in Slot : net'[q] = IF q = c THEN m ELSE net[q]
  BY DEF PageInv, NetType, Moved
<1>2. NetType'
  BY <1>1 DEF PageInv, NetType, Moved
<1>3. UNCHANGED <<fits, mounted, exec, events>>
  BY DEF client
<1>4. OneDriver'
  BY <1>1, <1>3 DEF PageInv, OneDriver, Drives, Moved
<1>5. PageType'
  BY <1>3, TypeParts DEF PageInv, PageType
<1> QED
  BY <1>2, <1>4, <1>5

LEMMA InitOK == Init => PageInv
<1> SUFFICES ASSUME Init PROVE PageInv
  OBVIOUS
<1> DEFINE n == [c \in Slot |-> NoCall]
<1>1. n \in [Slot -> Calls] /\ \A q \in Slot : n[q] = NoCall
  BY NoCallType
<1>2. \E c \in Slot : n[c].st = "idle"
  BY <1>1, NoCallType, CallsAssumption
<1>3. net = n \/ net = With(n, "current", Nothing, TRUE)
  BY DEF Init
<1> HIDE DEF n
<1>4. PICK s \in Slot : /\ With(n, "current", Nothing, TRUE) \in [Slot -> Calls]
                        /\ \A q \in Slot : With(n, "current", Nothing, TRUE)[q] =
                             IF q = s THEN NewCall("current", Nothing, TRUE) ELSE n[q]
  <2>1. "current" \in Kinds /\ TRUE \in BOOLEAN
    BY DEF Kinds
  <2> QED
    BY <1>1, <1>2, <2>1, WithType
<1> DEFINE new == NewCall("current", Nothing, TRUE)
<1>5. new \in Calls /\ ~new.ok /\ new.kind = "current"
  BY NewCallType DEF Kinds
<1> HIDE DEF new
<1>6. net \in [Slot -> Calls] /\ \A q \in Slot : net[q] = NoCall \/ (q = s /\ net[q] = new)
  BY <1>1, <1>3, <1>4 DEF new
<1>7. \A q \in Slot : ~net[q].ok /\ net[q].kind # "poll" /\ (net[q].live => q = s)
  BY <1>5, <1>6, NoCallType
<1>8. NetType
  BY <1>6, <1>7 DEF NetType
<1>9. exec = ExecInit /\ mounted
  BY DEF Init
<1>10. TypeOK
  <2>1. ServerType
    <3>1. job \in [Job -> Terminal \cup {"none", "pending", "active"}]
      BY DEF Init
    <3>2. overlapped \in BOOLEAN /\ inc \in Status
      BY DEF Init, Status
    <3>3. base \in Nat /\ log \in 0..MaxLogs /\ cursor \in 0..MaxLogs /\ starts \in Nat /\ handling \in Nat
      BY ExecutionAssumption DEF Init
    <3> QED
      BY <3>1, <3>2, <3>3 DEF Init, ServerType
  <2>2. PageType
    BY ExecInitType, ExecutionAssumption, CallsAssumption DEF Init, PageType
  <2> QED
    BY <1>8, <2>1, <2>2, TypeParts
<1>11. OneDriver
  BY <1>7, <1>9, ExecInitType DEF OneDriver, Drives
<1>12. LinesFollow
  BY <1>7, <1>9, ExecInitType DEF LinesFollow, Told, Increasing
<1>13. StartsApart
  BY DEF Init, StartsApart
<1> QED
  BY <1>8, <1>10, <1>11, <1>12, <1>13 DEF PageInv

-----------------------------------------------------------------------------
(* The server and the network.                                             *)

LEMMA ServeMoves ==
  ASSUME NetType, NEW c \in Slot, NEW ok \in BOOLEAN, NEW r \in Answers \cup {Nothing, Handled},
         ok /\ net[c].kind \in {"current", "poll", "jobs"} => r \in Answers,
         Serve(c, ok, r)
  PROVE  \E m : Moved(c, m) /\ m.ok = ok /\ m.res = r
<1> DEFINE m == [net[c] EXCEPT !.st = "answered", !.ok = ok, !.res = r]
<1>1. net[c] \in Calls
  BY DEF NetType
<1>2. /\ m \in Calls /\ m.kind = net[c].kind /\ m.live = net[c].live
      /\ m.st = "answered" /\ m.ok = ok /\ m.res = r
  BY <1>1 DEF Calls
<1>3. net' = [net EXCEPT ![c] = m]
  BY DEF Serve, NetType
<1> QED
  BY <1>2, <1>3 DEF Moved

LEMMA NetworkMoves ==
  ASSUME NetType, NEW c \in Slot, Again(c) \/ Lose(c) \/ TimeOut(c)
  PROVE  \E m : Moved(c, m) /\ ~m.ok
<1> DEFINE more == net[c].try + 1
           again == [net[c] EXCEPT !.st = "sent", !.try = more, !.ok = FALSE, !.res = Nothing]
           broken == [net[c] EXCEPT !.st = "broken", !.ok = FALSE, !.res = Nothing]
           retry == [net[c] EXCEPT !.st = "sent", !.try = more, !.res = Nothing]
<1>1. net[c] \in Calls
  BY DEF NetType
<1>0. net[c].try < MAX_RETRIES => more \in 0..MAX_RETRIES
  BY <1>1 DEF Calls, MAX_RETRIES
<1>2. CASE Again(c)
  <2>0. more \in 0..MAX_RETRIES /\ ~net[c].ok
    BY <1>0, <1>2 DEF Again
  <2> HIDE DEF more
  <2>1. retry \in Calls /\ retry.kind = net[c].kind /\ retry.live = net[c].live /\ ~retry.ok
    BY <1>1, <2>0 DEF Calls
  <2>2. net' = [net EXCEPT ![c] = retry]
    BY <1>2 DEF Again, NetType, more
  <2> QED
    BY <2>1, <2>2 DEF Moved
<1>3. CASE (Lose(c) \/ TimeOut(c)) /\ net' = [net EXCEPT ![c] = broken]
  <2>1. broken \in Calls /\ broken.kind = net[c].kind /\ broken.live = net[c].live /\ ~broken.ok
    BY <1>1 DEF Calls
  <2> QED
    BY <1>3, <2>1 DEF Moved
<1>4. CASE Lose(c) /\ net[c].try < MAX_RETRIES /\ net' = [net EXCEPT ![c] = again]
  <2>0. more \in 0..MAX_RETRIES
    BY <1>0, <1>4
  <2> HIDE DEF more
  <2>1. again \in Calls /\ again.kind = net[c].kind /\ again.live = net[c].live /\ ~again.ok
    BY <1>1, <2>0 DEF Calls
  <2> QED
    BY <1>4, <2>1 DEF Moved
<1>5. TimeOut(c) => net' = [net EXCEPT ![c] = broken]
  BY DEF TimeOut, NetType
<1>6. Lose(c) => net' = [net EXCEPT ![c] = broken]
                 \/ (net[c].try < MAX_RETRIES /\ net' = [net EXCEPT ![c] = again])
  BY DEF Lose, NetType
<1> QED
  BY <1>2, <1>3, <1>4, <1>5, <1>6

LEMMA PageInvTypes == PageInv => ServerType /\ PageType /\ NetType
BY TypeParts DEF PageInv

\* The solver wants the sum of two naturals named.
LEMMA NatSum == \A a, b \in Nat : a + b \in Nat
OBVIOUS

\* What the server counts as read is a number, before a step and after it.
LEMMA ReachType ==
  ASSUME ServerType, ServerType'
  PROVE  Reach \in Nat /\ Reach' \in Nat
<1>1. base \in Nat /\ cursor \in Nat
  BY ExecutionAssumption DEF ServerType
<1>2. base' \in Nat /\ cursor' \in Nat
  BY ExecutionAssumption DEF ServerType
<1>3. base + cursor \in Nat
  BY <1>1
<1>4. base' + cursor' \in Nat
  BY <1>2, NatSum, Zenon
<1>5. Reach \in Nat
  BY <1>3 DEF Reach
<1>6. Reach' \in Nat
  BY <1>4, Zenon DEF Reach
<1> QED
  BY <1>5, <1>6

\* A step of the server or of the network that answers no poll: what the page
\* shows stays behind what the server counts as read.
LEMMA ServerStep ==
  ASSUME PageInv, ServerType', NetType', OneDriver', PageType', StartsApart', exec' = exec,
         Reach' >= Reach,
         \A q \in Slot : Told(q, "poll")' => /\ Told(q, "poll") /\ net'[q].res = net[q].res
                                             /\ net'[q].live = net[q].live
  PROVE  PageInv'
<1>1. LinesFollow /\ NetType /\ Reach \in Nat /\ Reach' \in Nat
  <2>1. ServerType /\ LinesFollow /\ NetType
    BY PageInvTypes DEF PageInv
  <2>2. Reach \in Nat /\ Reach' \in Nat
    BY <2>1, ReachType
  <2> QED
    BY <2>1, <2>2
<1>2. exec.shown \in Seq(Nat)
  BY PageInvTypes DEF PageType, Execs
<1>3. \A i \in DOMAIN exec.shown : exec.shown[i] \in Nat
  <2> DEFINE shown == exec.shown
  <2>1. shown \in Seq(Nat)
    BY <1>2
  <2> HIDE DEF shown
  <2>2. \A i \in DOMAIN shown : shown[i] \in Nat
    BY <2>1, LinesType
  <2> QED
    BY <2>2 DEF shown
<1>4. \A i \in DOMAIN exec.shown : exec.shown[i] <= Reach'
  BY <1>1, <1>3 DEF LinesFollow
<1>5. ASSUME NEW q \in Slot, Told(q, "poll")'
      PROVE  LET l == net'[q].res.lines IN
             /\ Increasing(l) /\ \A i \in DOMAIN l : l[i] <= Reach'
             /\ net'[q].live => \A i \in DOMAIN exec.shown, j \in DOMAIN l : exec.shown[i] < l[j]
  <2> DEFINE l == net[q].res.lines
  <2>1. Told(q, "poll") /\ net'[q].res = net[q].res /\ net'[q].live = net[q].live
    BY <1>5
  <2>2. l \in Seq(Nat)
    BY <1>1, <2>1 DEF NetType, Told, Answers
  <2>3. \A i \in DOMAIN l : l[i] \in Nat
    BY <2>2, LinesType
  <2>4. /\ Increasing(l) /\ \A i \in DOMAIN l : l[i] <= Reach
        /\ net[q].live => \A i \in DOMAIN exec.shown, j \in DOMAIN l : exec.shown[i] < l[j]
    BY <1>1, <2>1 DEF LinesFollow
  <2> HIDE DEF l
  <2>5. \A i \in DOMAIN l : l[i] <= Reach'
    BY <1>1, <2>3, <2>4
  <2> QED
    BY <2>1, <2>4, <2>5 DEF l
<1>6. LinesFollow'
  BY <1>1, <1>4, <1>5 DEF LinesFollow
<1> QED
  BY <1>6, TypeParts DEF PageInv

\* An answer to a call other than a poll, or none.
LEMMA Answered ==
  ASSUME PageInv, NEW c \in Slot, NEW m, Moved(c, m), UNCHANGED client,
         faults' \in 0..MaxFaults, ServerType', StartsApart', Reach' >= Reach,
         m.ok => m.kind # "poll"
  PROVE  PageInv'
<1>1. \A q \in Slot : net'[q] = IF q = c THEN m ELSE net[q]
  BY DEF PageInv, NetType, Moved
<1>2. NetType' /\ OneDriver' /\ PageType' /\ exec' = exec
  BY CallMoves DEF client
<1>3. \A q \in Slot : Told(q, "poll")' => q # c /\ net'[q] = net[q] /\ Told(q, "poll")
  BY <1>1 DEF Told
<1> QED
  BY <1>2, <1>3, ServerStep

\* What a step that writes no start and no line read keeps.
LEMMA ServerKept ==
  ASSUME PageInv, UNCHANGED backend
  PROVE  ServerType' /\ StartsApart' /\ Reach' >= Reach
<1>1. UNCHANGED <<inc, job, running, base, log, cursor, starts, handling, overlapped>>
  BY DEF backend, lines, start
<1>2. ServerType /\ StartsApart
  BY PageInvTypes DEF PageInv
<1>3. Reach \in Nat /\ Reach' = Reach
  BY <1>1, <1>2 DEF ServerType, Reach
<1> QED
  BY <1>1, <1>2, <1>3 DEF ServerType, StartsApart

LEMMA NetworkStep ==
  ASSUME PageInv, NEW c \in Slot, Retries(c) \/ Breaks(c) \/ ServeError(c)
  PROVE  PageInv'
<1>1. faults \in Nat /\ MaxFaults \in Nat /\ faults <= MaxFaults /\ ServerType /\ StartsApart
  BY PageInvTypes, CallsAssumption DEF PageType, PageInv
<1>2. UNCHANGED client /\ faults' \in 0..MaxFaults
  <2>1. UNCHANGED client
    BY DEF Retries, Breaks, ServeError, HandlerEnds
  <2>2. faults' = faults \/ (faults < MaxFaults /\ faults' = faults + 1)
    BY DEF Retries, Again, Breaks, Lose, TimeOut, ServeError
  <2> QED
    BY <1>1, <2>1, <2>2
<1>3. PICK m : Moved(c, m) /\ ~m.ok
  <2>1. CASE Retries(c) \/ Breaks(c)
    BY <2>1, NetworkMoves DEF Retries, Breaks, PageInv
  <2>2. CASE ServeError(c)
    BY <2>2, ServeMoves DEF ServeError, PageInv
  <2> QED
    BY <2>1, <2>2
<1>4. ServerType' /\ StartsApart' /\ Reach' >= Reach
  <2>1. CASE UNCHANGED backend
    BY <2>1, ServerKept
  <2>2. CASE HandlerEnds /\ UNCHANGED <<inc, job, running, lines, starts>>
    <3>1. /\ handling > 0 /\ handling' = handling - 1
          /\ UNCHANGED <<inc, job, running, base, log, cursor, starts, overlapped>>
      BY <2>2 DEF HandlerEnds, lines
    <3> QED
      BY <1>1, <3>1 DEF ServerType, StartsApart, Reach
  <2> QED
    BY <2>1, <2>2 DEF Retries, Breaks, ServeError
<1> QED
  BY <1>2, <1>3, <1>4, Answered

LEMMA ReadServed ==
  ASSUME PageInv, NEW c \in Slot, ServeCurrent(c) \/ ServeJobs(c)
  PROVE  PageInv'
<1>1. /\ UNCHANGED client /\ faults' \in 0..MaxFaults
      /\ ServerType' /\ StartsApart' /\ Reach' >= Reach
  BY PageInvTypes, ServerKept DEF ServeCurrent, ServeJobs, PageType
<1>2. inc \in Status
  BY PageInvTypes DEF ServerType
<1>3. CASE ServeCurrent(c)
  <2>1. Result(inc, <<>>, {}) \in Answers /\ Result(inc, <<>>, {}).status = inc
    BY <1>2 DEF Result, Answers
  <2>2. PICK m : Moved(c, m) /\ m.ok = TRUE /\ m.res = Result(inc, <<>>, {})
    BY <1>3, <2>1, ServeMoves DEF ServeCurrent, PageInv
  <2>3. m.kind = "current"
    BY <1>3, <2>2 DEF ServeCurrent, Asked, Moved
  <2> QED
    BY <1>1, <2>1, <2>2, <2>3, Answered
<1>4. CASE ServeJobs(c)
  <2> DEFINE r == Result(inc, <<>>, {d \in Job : job[d] # "none"})
  <2>1. r \in Answers
    BY <1>2 DEF Result, Answers
  <2>2. Serve(c, TRUE, r)
    BY <1>4 DEF ServeJobs
  <2> HIDE DEF r
  <2>3. PICK m : Moved(c, m) /\ m.ok = TRUE /\ m.res = r
    BY <2>1, <2>2, ServeMoves DEF PageInv
  <2>4. m.kind = "jobs"
    BY <1>4, <2>3 DEF ServeJobs, Asked, Moved
  <2> QED
    BY <1>1, <2>3, <2>4, Answered
<1> QED
  BY <1>3, <1>4

\* A start that is joined, refused, or read as PENDING: the one that is read
\* beside another is an overlap.
LEMMA StartRead ==
  ASSUME PageInv, NEW c \in Slot, AnswerStart(c) \/ ReadStart(c)
  PROVE  PageInv'
<1>1. ServerType /\ PageType /\ NetType /\ StartsApart
  BY PageInvTypes DEF PageInv
<1>2. CASE AnswerStart(c)
  <2> DEFINE ok == inc = "COLLECTION_IN_PROGRESS"
  <2>1. /\ net[c].kind = "start" /\ Serve(c, ok, Nothing) /\ ok \in BOOLEAN
        /\ UNCHANGED <<backend, client>> /\ faults' \in 0..MaxFaults
    BY <1>1, <1>2 DEF AnswerStart, Asked, PageType
  <2> HIDE DEF ok
  <2>2. PICK m : Moved(c, m) /\ m.ok = ok
    BY <1>1, <2>1, ServeMoves
  <2>3. m.kind = "start"
    BY <2>1, <2>2 DEF Moved
  <2> QED
    BY <2>1, <2>2, <2>3, ServerKept, Answered
<1>3. CASE ReadStart(c)
  <2> DEFINE m == [net[c] EXCEPT !.res = Handled]
  <2>1. /\ net[c].kind = "start" /\ net[c].st = "sent" /\ inc = "PENDING"
        /\ net' = [net EXCEPT ![c] = m]
        /\ handling' = handling + 1 /\ overlapped' = (overlapped \/ handling > 0)
        /\ UNCHANGED <<inc, job, running, base, log, cursor, starts, client, faults>>
    BY <1>1, <1>3 DEF ReadStart, CanStart, Asked, lines, NetType
  <2>2. net[c] \in Calls /\ ~net[c].ok
    BY <1>1, <2>1 DEF NetType
  <2>3. m \in Calls /\ m.kind = net[c].kind /\ m.live = net[c].live /\ ~m.ok
    BY <2>2 DEF Calls
  <2> HIDE DEF m
  <2>4. Moved(c, m)
    BY <2>1, <2>3 DEF Moved
  <2>5. ServerType'
    <3>1. overlapped' \in BOOLEAN
      BY <2>1
    <3> QED
      BY <1>1, <2>1, <3>1 DEF ServerType
  <2>6. StartsApart'
    <3>1. ~overlapped' => ~overlapped /\ ~(handling > 0)
      BY <2>1
    <3>2. handling \in Nat /\ starts \in Nat
      BY <1>1 DEF ServerType
    <3>3. starts = 0
      BY <1>1, <2>1, <3>2 DEF StartsApart
    <3> QED
      BY <2>1, <3>1, <3>2, <3>3 DEF StartsApart
  <2>7. Reach' >= Reach
    BY <1>1, <2>1, ExecutionAssumption DEF ServerType, Reach
  <2> QED
    BY <1>1, <2>1, <2>3, <2>4, <2>5, <2>6, <2>7, Answered DEF PageType
<1> QED
  BY <1>2, <1>3

\* A start is written: the lines read before it lie behind all that follow.
LEMMA BeginKeeps ==
  ASSUME PageInv, HandlerEnds, Begin
  PROVE  ServerType' /\ StartsApart' /\ Reach' >= Reach /\ UNCHANGED client
<1>1. ServerType /\ StartsApart
  BY PageInvTypes DEF PageInv
<1>2. /\ inc' = "COLLECTION_IN_PROGRESS" /\ starts' = starts + 1
      /\ base' = base + log /\ log' = 1 /\ running' = running /\ cursor' = cursor
      /\ job' = [d \in Job |-> IF d \in Device /\ job[d] = "none" THEN "pending" ELSE job[d]]
      /\ handling > 0 /\ handling' = handling - 1 /\ UNCHANGED <<overlapped, client>>
  BY DEF Begin, HandlerEnds
<1>3. job' \in [Job -> Terminal \cup {"none", "pending", "active"}]
  BY <1>1, <1>2 DEF ServerType
<1>4. ServerType'
  BY <1>1, <1>2, <1>3, ExecutionAssumption DEF ServerType, Status
<1>5. StartsApart'
  BY <1>1, <1>2 DEF StartsApart, ServerType
<1>6. Reach' >= Reach
  BY <1>1, <1>2 DEF ServerType, Reach
<1> QED
  BY <1>2, <1>4, <1>5, <1>6

LEMMA StartFinished ==
  ASSUME PageInv, NEW c \in Slot, FinishStart(c)
  PROVE  PageInv'
<1>1. /\ net[c].kind = "start" /\ Serve(c, TRUE, Nothing) /\ HandlerEnds /\ Begin
      /\ faults' \in 0..MaxFaults /\ NetType
  BY PageInvTypes DEF FinishStart, HandledHere, Asked, PageType
<1>2. PICK m : Moved(c, m) /\ m.ok = TRUE
  BY <1>1, ServeMoves
<1>3. m.kind = "start"
  BY <1>1, <1>2 DEF Moved
<1> QED
  BY <1>1, <1>2, <1>3, BeginKeeps, Answered

\* A step of the server alone.
LEMMA ServerAlone ==
  ASSUME PageInv, UNCHANGED <<fits, mounted, exec, net, faults>>, events' \in 0..MaxEvents,
         ServerType', StartsApart', Reach' >= Reach
  PROVE  PageInv'
<1>1. NetType' /\ PageType' /\ OneDriver'
  BY PageInvTypes DEF PageInv, NetType, PageType, OneDriver, Drives
<1>2. \A q \in Slot : Told(q, "poll")' => /\ Told(q, "poll") /\ net'[q].res = net[q].res
                                          /\ net'[q].live = net[q].live
  BY DEF Told
<1> QED
  BY <1>1, <1>2, ServerStep

LEMMA LateStartStep ==
  ASSUME PageInv, LateStart
  PROVE  PageInv'
<1>1. HandlerEnds /\ UNCHANGED <<net, faults>> /\ ServerType /\ PageType /\ StartsApart
  BY PageInvTypes DEF LateStart, PageInv
<1>2. UNCHANGED client
  BY <1>1 DEF HandlerEnds
<1>3. ServerType' /\ StartsApart' /\ Reach' >= Reach
  <2>1. CASE Begin
    BY <1>1, <2>1, BeginKeeps
  <2>2. CASE UNCHANGED <<inc, job, running, lines, starts>>
    <3>1. /\ handling > 0 /\ handling' = handling - 1
          /\ UNCHANGED <<inc, job, running, base, log, cursor, starts, overlapped>>
      BY <1>1, <2>2 DEF HandlerEnds, lines
    <3> QED
      BY <1>1, <3>1 DEF ServerType, StartsApart, Reach
  <2> QED
    BY <2>1, <2>2 DEF LateStart
<1> QED
  BY <1>1, <1>2, <1>3, ServerAlone DEF client, PageType

\* The lines of a poll begin after the cursor, which no line shown or answered
\* lies beyond.
LEMMA PollServed ==
  ASSUME PageInv, NEW c \in Slot, ServePoll(c)
  PROVE  PageInv'
<1> DEFINE l == After(cursor)
           r == Result(inc, l, {})
<1>1. ServerType /\ PageType /\ NetType /\ StartsApart
  BY PageInvTypes DEF PageInv
<1>2. log \in Nat /\ cursor \in Nat /\ base \in Nat /\ log <= MaxLogs /\ MaxLogs \in Nat
  BY <1>1, ExecutionAssumption DEF ServerType
<1>3. l \in Seq(Nat)
  <2> DEFINE n == IF log > cursor THEN log - cursor ELSE 0
  <2>1. n \in Nat /\ 1..(log - cursor) = 1..n /\ \A i \in 1..n : base + cursor + i \in Nat
    BY <1>2
  <2>2. l = [i \in 1..n |-> base + cursor + i]
    BY <2>1 DEF After
  <2> HIDE DEF n, l
  <2>3. [i \in 1..n |-> base + cursor + i] \in Seq(Nat)
    BY <2>1, IsASeq
  <2> QED
    BY <2>2, <2>3
<1>4. /\ net[c].kind = "poll" /\ Serve(c, TRUE, r)
      /\ cursor' = (IF log > cursor THEN log ELSE cursor)
      /\ UNCHANGED <<inc, job, running, base, log, starts, handling, overlapped, client, faults>>
  BY DEF ServePoll, AnswerPoll, Asked, start
<1>5. /\ Increasing(l)
      /\ \A i \in DOMAIN l : l[i] \in Nat /\ Reach < l[i] /\ l[i] <= Reach'
  <2>1. DOMAIN l = 1..(log - cursor) /\ \A i \in DOMAIN l : l[i] = base + cursor + i
    BY DEF After
  <2> HIDE DEF l
  <2>2. Reach' = IF log > cursor THEN base + log ELSE base + cursor
    BY <1>4 DEF Reach
  <2> QED
    BY <1>2, <2>1, <2>2 DEF Increasing, Reach
<1> HIDE DEF l
<1>6. r \in Answers /\ r.lines = l
  BY <1>1, <1>3 DEF Result, Answers, ServerType
<1> HIDE DEF r
<1>7. PICK m : Moved(c, m) /\ m.ok = TRUE /\ m.res = r
  BY <1>1, <1>4, <1>6, ServeMoves
<1>8. NetType' /\ OneDriver' /\ PageType'
  BY <1>1, <1>4, <1>7, CallMoves DEF PageType
<1>9. exec' = exec
  BY <1>4 DEF client
<1>10. \A q \in Slot : net'[q] = IF q = c THEN m ELSE net[q]
  BY <1>1, <1>7 DEF NetType, Moved
<1>11. ServerType' /\ StartsApart' /\ Reach \in Nat /\ Reach' \in Nat /\ Reach' >= Reach
  BY <1>1, <1>2, <1>4 DEF ServerType, StartsApart, Reach
<1>12. LinesFollow'
  <2>1. exec.shown \in Seq(Nat)
    BY <1>1 DEF PageType, Execs
  <2>2. \A i \in DOMAIN exec.shown : exec.shown[i] \in Nat /\ exec.shown[i] <= Reach
    BY <2>1, LinesType DEF PageInv, LinesFollow
  <2>3. Increasing(exec'.shown) /\ \A i \in DOMAIN exec'.shown : exec'.shown[i] <= Reach'
    BY <1>9, <1>11, <2>2 DEF PageInv, LinesFollow
  <2>4. ASSUME NEW q \in Slot, Told(q, "poll")'
        PROVE  /\ Increasing(net'[q].res.lines)
               /\ \A i \in DOMAIN net'[q].res.lines : net'[q].res.lines[i] <= Reach'
               /\ net'[q].live => \A i \in DOMAIN exec'.shown, j \in DOMAIN net'[q].res.lines :
                                    exec'.shown[i] < net'[q].res.lines[j]
    <3>1. CASE q = c
      <4>1. net'[q].res.lines = l
        BY <1>6, <1>7, <1>10, <3>1
      <4>2. \A i \in DOMAIN exec.shown, j \in DOMAIN l : exec.shown[i] < l[j]
        BY <1>5, <1>11, <2>2
      <4> QED
        BY <1>5, <1>9, <4>1, <4>2
    <3>2. CASE q # c
      <4>1. net'[q] = net[q] /\ Told(q, "poll")
        BY <1>10, <2>4, <3>2 DEF Told
      <4>2. net[q].res \in Answers
        BY <1>1, <4>1 DEF NetType, Told
      <4>3. \A i \in DOMAIN net[q].res.lines : net[q].res.lines[i] \in Nat
        BY <4>2, LinesType DEF Answers
      <4> QED
        BY <1>9, <1>11, <4>1, <4>3 DEF PageInv, LinesFollow
    <3> QED
      BY <3>1, <3>2
  <2> QED
    BY <2>3, <2>4 DEF LinesFollow
<1> QED
  BY <1>8, <1>11, <1>12, TypeParts DEF PageInv

LEMMA CancelServed ==
  ASSUME PageInv, NEW c \in Slot, ServeCancel(c)
  PROVE  PageInv'
<1>1. ServerType /\ PageType /\ NetType /\ StartsApart
  BY PageInvTypes DEF PageInv
<1>2. /\ net[c].kind = "cancel" /\ Serve(c, TRUE, Nothing)
      /\ job' = [job EXCEPT ![net[c].arg] = "failed"]
      /\ UNCHANGED <<inc, running, base, log, cursor, starts, handling, overlapped, client, faults>>
  BY DEF ServeCancel, Asked, lines, start
<1>3. PICK m : Moved(c, m) /\ m.ok = TRUE
  BY <1>1, <1>2, ServeMoves
<1>4. m.kind = "cancel"
  BY <1>2, <1>3 DEF Moved
<1>5. job' \in [Job -> Terminal \cup {"none", "pending", "active"}]
  BY <1>1, <1>2 DEF ServerType, Terminal
<1>6. ServerType' /\ StartsApart' /\ Reach' >= Reach
  BY <1>1, <1>2, <1>5 DEF ServerType, StartsApart, Reach
<1> QED
  BY <1>1, <1>2, <1>3, <1>4, <1>6, Answered DEF PageType

-----------------------------------------------------------------------------
(* The agents, the scheduler, and other clients.                           *)

LEMMA WrittenType == ServerType => Written \in 0..MaxLogs
BY ExecutionAssumption DEF ServerType, Written

\* What a step elsewhere keeps: it writes no start and never leads to PENDING.
LEMMA ElsewhereStep ==
  ASSUME PageInv, UNCHANGED <<base, cursor, start, fits, mounted, exec, net, faults>>,
         events' = events \/ Counted,
         inc' = inc \/ inc' \in Status \ {"PENDING"}, running' \subseteq Job,
         log' \in 0..MaxLogs, job' \in [Job -> Terminal \cup {"none", "pending", "active"}]
  PROVE  PageInv'
<1>1. ServerType /\ PageType /\ StartsApart
  BY PageInvTypes DEF PageInv
<1>2. UNCHANGED <<starts, handling, overlapped>>
  BY DEF start
<1>3. events' \in 0..MaxEvents
  BY <1>1, ExecutionAssumption DEF Counted, PageType
<1>4. ServerType' /\ StartsApart' /\ Reach' >= Reach
  BY <1>1, <1>2 DEF ServerType, StartsApart, Reach
<1> QED
  BY <1>3, <1>4, ServerAlone

LEMMA SyncedType ==
  ASSUME NEW j
  PROVE  /\ Synced(j) = inc \/ Synced(j) \in Status \ {"PENDING"}
         /\ TakenUp = inc \/ TakenUp \in Status \ {"PENDING"}
BY DEF Synced, TakenUp, Status

LEMMA AgentsStep ==
  ASSUME PageInv, Agents \/ Retry \/ Close
  PROVE  PageInv'
<1>1. ServerType /\ Written \in 0..MaxLogs
  BY PageInvTypes, WrittenType
<1>2. log \in 0..MaxLogs /\ running \subseteq Job
      /\ job \in [Job -> Terminal \cup {"none", "pending", "active"}]
  BY <1>1 DEF ServerType
<1>3. ASSUME NEW d \in Job, Claim(d) \/ Progress(d) PROVE PageInv'
  <2>1. /\ job' = [job EXCEPT ![d] = "active"] /\ running' \subseteq Job
        /\ log' \in 0..MaxLogs /\ (inc' = inc \/ inc' \in Status \ {"PENDING"})
        /\ UNCHANGED <<base, cursor, start, fits, mounted, exec, net, faults, events>>
    BY <1>1, <1>2, <1>3, SyncedType DEF Claim, Progress, Elsewhere, client
  <2>2. job' \in [Job -> Terminal \cup {"none", "pending", "active"}]
    BY <1>2, <2>1
  <2> QED
    BY <2>1, <2>2, ElsewhereStep
<1>4. ASSUME NEW d \in Job, NEW r \in Terminal, JobEnds(d, r) PROVE PageInv'
  <2>1. /\ job' = [job EXCEPT ![d] = r] /\ running' \subseteq Job
        /\ log' \in 0..MaxLogs /\ inc' = Synced(job')
        /\ UNCHANGED <<base, cursor, start, fits, mounted, exec, net, faults, events>>
    BY <1>1, <1>2, <1>4 DEF JobEnds, Elsewhere, client
  <2>2. job' \in [Job -> Terminal \cup {"none", "pending", "active"}]
    BY <1>2, <2>1
  <2> QED
    BY <2>1, <2>2, SyncedType, ElsewhereStep
<1>5. ASSUME NEW d \in Job, Schedule(d) PROVE PageInv'
  <2>1. /\ job' = [job EXCEPT ![d] = "pending"] /\ inc' = TakenUp /\ Counted
        /\ UNCHANGED <<running, log, base, cursor, start, fits, mounted, exec, net, faults>>
    BY <1>5 DEF Schedule, OtherClient
  <2>2. job' \in [Job -> Terminal \cup {"none", "pending", "active"}]
    BY <1>2, <2>1
  <2> QED
    BY <1>2, <2>1, <2>2, SyncedType, ElsewhereStep
<1>6. CASE Retry
  <2> DEFINE reset == {d \in Job : job[d] = "failed"}
  <2>1. /\ job' = [d \in Job |-> IF d \in reset THEN "pending" ELSE job[d]] /\ inc' = TakenUp /\ Counted
        /\ UNCHANGED <<running, log, base, cursor, start, fits, mounted, exec, net, faults>>
    BY <1>6 DEF Retry, OtherClient
  <2> HIDE DEF reset
  <2>2. job' \in [Job -> Terminal \cup {"none", "pending", "active"}]
    BY <1>2, <2>1
  <2> QED
    BY <1>2, <2>1, <2>2, SyncedType, ElsewhereStep
<1>7. CASE Close
  <2>1. /\ inc' = "CLOSED" /\ Counted
        /\ UNCHANGED <<job, running, log, base, cursor, start, fits, mounted, exec, net, faults>>
    BY <1>7 DEF Close, OtherClient
  <2>2. inc' \in Status \ {"PENDING"}
    BY <2>1 DEF Status
  <2> QED
    BY <1>2, <2>1, <2>2, ElsewhereStep
<1> QED
  BY <1>3, <1>4, <1>5, <1>6, <1>7 DEF Agents

-----------------------------------------------------------------------------
(* The page.                                                               *)

DriverKinds == {"current", "start", "poll"}

\* A call has settled and its continuation has run.
LEMMA CallEnds ==
  ASSUME PageInv, NEW c \in Slot, NEW new \in Execs, Ends(c, new), LinesFollow',
         new.timer => exec.timer \/ net[c].kind \in DriverKinds
  PROVE  PageInv'
<1>1. /\ exec' = (IF net[c].live THEN new ELSE exec) /\ net' = Without(net, c)
      /\ UNCHANGED <<backend, fits, mounted, events, faults>>
  BY DEF Ends, Runs
<1>2. NetType /\ PageType /\ OneDriver
  BY PageInvTypes DEF PageInv
<1>3. net' \in [Slot -> Calls] /\ \A q \in Slot : net'[q] = IF q = c THEN NoCall ELSE net[q]
  BY <1>1, <1>2, WithoutType DEF NetType
<1>4. NetType' /\ NoNews
  BY <1>2, <1>3, NoCallType DEF NetType, NoNews
<1>5. PageType'
  BY <1>1, <1>2 DEF PageType
<1>6. OneDriver'
  <2>1. \A q \in Slot : Drives(q)' => q # c /\ Drives(q)
    BY <1>3, NoCallType DEF Drives
  <2>2. exec'.timer => \A q \in Slot : ~Drives(q)'
    BY <1>1, <1>2, <2>1 DEF OneDriver, Drives, DriverKinds
  <2>3. ~mounted' => exec' = ExecInit /\ \A q \in Slot : ~net'[q].live
    BY <1>1, <1>2, <1>3, NoCallType DEF OneDriver
  <2> QED
    BY <1>2, <2>1, <2>2, <2>3 DEF OneDriver
<1> QED
  BY <1>1, <1>4, <1>5, <1>6, ClientStep

\* A continuation that does not touch the log.
LEMMA CallEndsLogKept ==
  ASSUME PageInv, NEW c \in Slot, NEW new \in Execs, Ends(c, new), new.shown = exec.shown,
         new.timer => exec.timer \/ net[c].kind \in DriverKinds
  PROVE  PageInv'
<1>1. /\ exec' = (IF net[c].live THEN new ELSE exec) /\ net' = Without(net, c)
      /\ UNCHANGED <<base, cursor>>
  BY DEF Ends, Runs, backend, lines
<1>2. NoNews
  BY <1>1, WithoutType, NoCallType DEF PageInv, NetType, NoNews
<1>3. LinesFollow'
  BY <1>1, <1>2, LinesKept DEF PageInv
<1> QED
  BY <1>3, CallEnds

LEMMA JoinStep ==
  ASSUME PageInv, NEW c \in Slot, JoinCollection(c)
  PROVE  PageInv'
<1> DEFINE busy == net[c].res.status = "COLLECTION_IN_PROGRESS"
           new == [exec EXCEPT !.started = TRUE, !.polling = busy, !.timer = busy, !.complete = ~busy]
<1>1. Told(c, "current") /\ net[c].res.status \in {"COLLECTION_IN_PROGRESS", "COLLECTION_COMPLETE"}
  BY DEF JoinCollection, Joins, Resolved, Told
<1>2. Ends(c, new)
  BY DEF JoinCollection
<1>3. busy \in BOOLEAN
  OBVIOUS
<1>4. exec \in Execs
  BY PageInvTypes DEF PageType
<1> HIDE DEF busy
<1>5. new \in Execs /\ new.shown = exec.shown
  BY <1>3, <1>4 DEF Execs
<1>6. net[c].kind \in DriverKinds
  BY <1>1 DEF Told, DriverKinds
<1> HIDE DEF new
<1> QED
  BY <1>2, <1>3, <1>5, <1>6, CallEndsLogKept

LEMMA StartedStep ==
  ASSUME PageInv, NEW c \in Slot, Started(c)
  PROVE  PageInv'
<1> DEFINE new == [exec EXCEPT !.started = TRUE, !.polling = TRUE, !.timer = TRUE]
<1>1. Told(c, "start") /\ Ends(c, new)
  BY DEF Started, Resolved, Told
<1>2. net[c].kind \in DriverKinds
  BY <1>1 DEF Told, DriverKinds
<1>3. exec \in Execs
  BY PageInvTypes DEF PageType
<1>4. new \in Execs /\ new.shown = exec.shown
  BY <1>3 DEF Execs
<1> HIDE DEF new
<1> QED
  BY <1>1, <1>2, <1>4, CallEndsLogKept

\* A failed start, a failed poll, a failed abort, a settled cancel.
LEMMA FailedStep ==
  ASSUME PageInv, NEW c \in Slot, StartFails(c) \/ PollFails(c) \/ AbortFails(c) \/ CancelSettled(c)
  PROVE  PageInv'
<1> DEFINE begun == [exec EXCEPT !.error = "start"]
           poll  == [exec EXCEPT !.timer = exec.polling]
           abort == [exec EXCEPT !.abort = "no", !.error = "abort"]
<1>1. exec \in Execs
  BY PageInvTypes DEF PageType
<1>2. CASE StartFails(c)
  <2>1. begun \in Execs /\ begun.shown = exec.shown /\ begun.timer = exec.timer
    BY <1>1 DEF Execs
  <2>2. Ends(c, begun)
    BY <1>2 DEF StartFails
  <2> HIDE DEF begun
  <2> QED
    BY <2>1, <2>2, CallEndsLogKept
<1>3. CASE PollFails(c)
  <2>1. poll \in Execs /\ poll.shown = exec.shown
    BY <1>1 DEF Execs
  <2>2. Ends(c, poll) /\ net[c].kind = "poll"
    BY <1>3 DEF PollFails, Rejected
  <2> HIDE DEF poll
  <2> QED
    BY <2>1, <2>2, CallEndsLogKept DEF DriverKinds
<1>4. CASE AbortFails(c)
  <2>1. abort \in Execs /\ abort.shown = exec.shown /\ abort.timer = exec.timer
    BY <1>1 DEF Execs
  <2>2. Ends(c, abort)
    BY <1>4 DEF AbortFails
  <2> HIDE DEF abort
  <2> QED
    BY <2>1, <2>2, CallEndsLogKept
<1>5. CASE CancelSettled(c)
  BY <1>1, <1>5, CallEndsLogKept DEF CancelSettled
<1> QED
  BY <1>2, <1>3, <1>4, <1>5

\* What follows the lines of one log continues it.
LEMMA IncreasingConcat ==
  ASSUME NEW s \in Seq(Nat), NEW t \in Seq(Nat), Increasing(s), Increasing(t),
         \A i \in DOMAIN s, j \in DOMAIN t : s[i] < t[j]
  PROVE  /\ s \o t \in Seq(Nat) /\ Increasing(s \o t)
         /\ \A i \in DOMAIN (s \o t) : (\E j \in DOMAIN s : (s \o t)[i] = s[j])
                                       \/ (\E j \in DOMAIN t : (s \o t)[i] = t[j])
<1> DEFINE u == s \o t
<1>1. /\ u \in Seq(Nat) /\ Len(u) = Len(s) + Len(t)
      /\ \A i \in 1 .. Len(s) + Len(t) : u[i] = IF i <= Len(s) THEN s[i] ELSE t[i - Len(s)]
  BY ConcatProperties
<1>2. /\ Len(s) \in Nat /\ DOMAIN s = 1..Len(s) /\ Len(t) \in Nat /\ DOMAIN t = 1..Len(t)
  BY LinesType
<1> HIDE DEF u
<1>3. DOMAIN u = 1 .. Len(s) + Len(t)
  BY <1>1, LinesType
<1>4. ASSUME NEW i \in DOMAIN u
      PROVE  \/ i <= Len(s) /\ i \in DOMAIN s /\ u[i] = s[i]
             \/ i > Len(s) /\ i - Len(s) \in DOMAIN t /\ u[i] = t[i - Len(s)]
  BY <1>1, <1>2, <1>3
<1>5. ASSUME NEW i \in DOMAIN u, NEW j \in DOMAIN u, i < j PROVE u[i] < u[j]
  <2>1. i \in Nat /\ j \in Nat
    BY <1>2, <1>3
  <2>2. CASE j <= Len(s)
    <3>1. i \in DOMAIN s /\ j \in DOMAIN s /\ u[i] = s[i] /\ u[j] = s[j]
      BY <1>2, <1>4, <1>5, <2>1, <2>2
    <3>2. s[i] < s[j]
      BY <1>5, <3>1 DEF Increasing
    <3> QED
      BY <3>1, <3>2
  <2>3. CASE i <= Len(s) /\ j > Len(s)
    BY <1>2, <1>4, <2>1, <2>3
  <2>4. CASE i > Len(s)
    <3>1. /\ i - Len(s) \in DOMAIN t /\ j - Len(s) \in DOMAIN t /\ i - Len(s) < j - Len(s)
          /\ u[i] = t[i - Len(s)] /\ u[j] = t[j - Len(s)]
      BY <1>2, <1>4, <1>5, <2>1, <2>4
    <3> QED
      BY <3>1 DEF Increasing
  <2> QED
    BY <1>2, <2>1, <2>2, <2>3, <2>4
<1>6. Increasing(u)
  BY <1>5 DEF Increasing
<1>7. \A i \in DOMAIN u : (\E j \in DOMAIN s : u[i] = s[j]) \/ (\E j \in DOMAIN t : u[i] = t[j])
  BY <1>4
<1> QED
  BY <1>1, <1>6, <1>7 DEF u

\* The page appends the lines it polled; nothing else drives it meanwhile.
LEMMA PollAnsweredStep ==
  ASSUME PageInv, NEW c \in Slot, PollAnswered(c)
  PROVE  PageInv'
<1> DEFINE done == net[c].res.status = "COLLECTION_COMPLETE"
           bad  == net[c].res.status = "COLLECTION_FAILED"
           on   == exec.polling /\ ~done /\ ~bad
           l    == net[c].res.lines
           all  == exec.shown \o l
           over == exec.complete \/ done
           err  == IF bad THEN "failed" ELSE exec.error
           new  == [exec EXCEPT !.shown = all, !.complete = over, !.error = err,
                      !.polling = on, !.timer = on]
<1>1. Told(c, "poll") /\ net[c].kind = "poll"
  BY DEF PollAnswered, Resolved, Told
<1>2. Ends(c, new)
  BY DEF PollAnswered
<1>3. exec \in Execs /\ NetType /\ OneDriver /\ LinesFollow
  BY PageInvTypes DEF PageInv, PageType
<1>4. l \in Seq(Nat) /\ exec.shown \in Seq(Nat)
  BY <1>1, <1>3 DEF NetType, Told, Answers, Execs
<1>5. on \in BOOLEAN /\ over \in BOOLEAN /\ err \in {"none", "start", "failed", "aborted", "abort"}
  BY <1>3 DEF Execs
<1>6. Reach' = Reach
  BY <1>2 DEF Ends, Runs, backend, lines, Reach
<1>7. all \in Seq(Nat)
  BY <1>4, ConcatProperties
<1>8. net[c].live => /\ Increasing(all) /\ \A i \in DOMAIN all : all[i] <= Reach
  <2>1. /\ Increasing(l) /\ \A i \in DOMAIN l : l[i] <= Reach
        /\ Increasing(exec.shown) /\ \A i \in DOMAIN exec.shown : exec.shown[i] <= Reach
        /\ net[c].live => \A i \in DOMAIN exec.shown, j \in DOMAIN l : exec.shown[i] < l[j]
    BY <1>1, <1>3 DEF LinesFollow
  <2> HIDE DEF l
  <2> QED
    BY <1>4, <2>1, IncreasingConcat
<1> HIDE DEF done, on, over, err, all
<1>9. new \in Execs /\ new.shown = all
  BY <1>3, <1>5, <1>7 DEF Execs
<1>10. /\ exec' = (IF net[c].live THEN new ELSE exec) /\ net' = Without(net, c)
  BY <1>2 DEF Ends, Runs, backend
<1> HIDE DEF new
<1>11. \A q \in Slot : net'[q] = IF q = c THEN NoCall ELSE net[q]
  BY <1>3, <1>10, WithoutType DEF NetType
<1>12. \A q \in Slot : Told(q, "poll")' => q # c /\ net'[q] = net[q] /\ Told(q, "poll")
  BY <1>11, NoCallType DEF Told
<1>13. LinesFollow'
  <2>1. CASE net[c].live
    <3>1. \A q \in Slot : Told(q, "poll") /\ net[q].live => q = c
      BY <1>1, <1>3, <2>1 DEF OneDriver, Drives, Told
    <3>2. Increasing(exec'.shown) /\ \A i \in DOMAIN exec'.shown : exec'.shown[i] <= Reach'
      BY <1>6, <1>8, <1>9, <1>10, <2>1
    <3> QED
      BY <1>3, <1>6, <1>10, <1>12, <3>1, <3>2 DEF LinesFollow
  <2>2. CASE ~net[c].live
    BY <1>3, <1>6, <1>10, <1>12, <2>2 DEF LinesFollow
  <2> QED
    BY <2>1, <2>2
<1>14. net[c].kind \in DriverKinds
  BY <1>1 DEF DriverKinds
<1> QED
  BY <1>2, <1>3, <1>9, <1>13, <1>14, CallEnds

\* One call is put into a free slot, others at most dropped.
LEMMA Puts ==
  ASSUME PageInv, NEW n \in [Slot -> Calls], \A q \in Slot : n[q] \in {net[q], NoCall},
         \E c \in Slot : n[c].st = "idle", NEW k \in Kinds, NEW l \in BOOLEAN,
         net' = With(n, k, Nothing, l)
  PROVE  /\ NetType' /\ NoNews
         /\ \E s \in Slot : \A q \in Slot :
              IF q = s THEN net'[q].kind = k /\ net'[q].live = l
              ELSE net'[q] = n[q]
<1>1. PICK s \in Slot : /\ With(n, k, Nothing, l) \in [Slot -> Calls]
                        /\ \A q \in Slot : With(n, k, Nothing, l)[q] =
                             IF q = s THEN NewCall(k, Nothing, l) ELSE n[q]
  BY WithType
<1> DEFINE new == NewCall(k, Nothing, l)
<1>2. ~new.ok /\ new.kind = k /\ new.live = l
  BY NewCallType
<1>3. \A q \in Slot : net'[q] = IF q = s THEN new ELSE n[q]
  BY <1>1
<1> HIDE DEF new
<1>4. NetType
  BY PageInvTypes
<1>5. \A q \in Slot : net'[q].ok => net'[q] = net[q]
  BY <1>2, <1>3, NoCallType
<1>6. NetType'
  BY <1>1, <1>4, <1>5 DEF NetType
<1>7. NoNews
  BY <1>5 DEF NoNews
<1> QED
  BY <1>2, <1>3, <1>6, <1>7

LEMMA StartCollectionStep ==
  ASSUME PageInv, NEW c \in Slot, StartCollection(c)
  PROVE  PageInv'
<1> DEFINE n == Without(net, c)
<1>1. /\ net[c].kind = "current" /\ exec' = exec
      /\ net' = With(n, "start", Nothing, net[c].live)
      /\ UNCHANGED <<backend, fits, mounted, events, faults>>
  BY DEF StartCollection, Resolved, Rejected, Runs
<1>2. NetType /\ PageType /\ OneDriver /\ LinesFollow
  BY PageInvTypes DEF PageInv
<1>3. n \in [Slot -> Calls] /\ \A q \in Slot : n[q] = IF q = c THEN NoCall ELSE net[q]
  BY <1>2, WithoutType DEF NetType
<1>4. "start" \in Kinds /\ net[c].live \in BOOLEAN /\ n[c].st = "idle"
  BY <1>2, <1>3, NoCallType DEF NetType, Calls, Kinds
<1> HIDE DEF n
<1>5. /\ NetType' /\ NoNews
      /\ \E s \in Slot : \A q \in Slot :
           IF q = s THEN net'[q].kind = "start" /\ net'[q].live = net[c].live ELSE net'[q] = n[q]
  BY <1>1, <1>3, <1>4, Puts
<1>6. PICK s \in Slot : \A q \in Slot :
           IF q = s THEN net'[q].kind = "start" /\ net'[q].live = net[c].live ELSE net'[q] = n[q]
  BY <1>5
<1>7. OneDriver'
  <2>1. Drives(s)' => Drives(c)
    BY <1>1, <1>6 DEF Drives
  <2>2. \A q \in Slot : q # s /\ Drives(q)' => q # c /\ Drives(q)
    BY <1>3, <1>6, NoCallType DEF Drives
  <2>3. ~mounted' => exec' = ExecInit /\ \A q \in Slot : ~net'[q].live
    BY <1>1, <1>2, <1>3, <1>6, NoCallType DEF OneDriver
  <2> QED
    BY <1>1, <1>2, <2>1, <2>2, <2>3 DEF OneDriver
<1>8. PageType'
  BY <1>1, <1>2 DEF PageType
<1>9. LinesFollow'
  BY <1>1, <1>2, <1>5, LinesKept DEF backend, lines
<1> QED
  BY <1>1, <1>5, <1>7, <1>8, <1>9, ClientStep

\* A mounted page makes a call: a poll in place of its timer, or another one
\* that does not drive it.
LEMMA Asks ==
  ASSUME PageInv, NEW new \in Execs, NEW k \in Kinds, Room(1), mounted,
         exec' = new, net' = With(net, k, Nothing, TRUE), events' \in 0..MaxEvents,
         UNCHANGED <<backend, fits, mounted, faults>>, new.shown = exec.shown,
         \/ k \notin DriverKinds /\ new.timer = exec.timer
         \/ k = "poll" /\ exec.timer /\ ~new.timer
  PROVE  PageInv'
<1>1. /\ exec' = new /\ net' = With(net, k, Nothing, TRUE)
      /\ UNCHANGED <<backend, fits, mounted, faults>>
  OBVIOUS
<1>2. NetType /\ PageType /\ OneDriver /\ LinesFollow
  BY PageInvTypes DEF PageInv
<1>3. net \in [Slot -> Calls] /\ \E c \in Slot : net[c].st = "idle"
  BY <1>2, RoomForOne DEF NetType
<1>4. /\ NetType' /\ NoNews
      /\ \E s \in Slot : \A q \in Slot :
           IF q = s THEN net'[q].kind = k /\ net'[q].live = TRUE ELSE net'[q] = net[q]
  BY <1>1, <1>3, Puts
<1>5. PICK s \in Slot : \A q \in Slot :
           IF q = s THEN net'[q].kind = k /\ net'[q].live = TRUE ELSE net'[q] = net[q]
  BY <1>4
<1>6. OneDriver'
  <2>1. \A q \in Slot : q # s /\ Drives(q)' => Drives(q)
    BY <1>5 DEF Drives
  <2>2. Drives(s)' => k = "poll"
    BY <1>5 DEF Drives, DriverKinds
  <2> QED
    BY <1>1, <1>2, <2>1, <2>2 DEF OneDriver, DriverKinds
<1>7. PageType'
  BY <1>1, <1>2 DEF PageType
<1>8. LinesFollow'
  BY <1>1, <1>2, <1>4, LinesKept DEF backend, lines
<1> QED
  BY <1>1, <1>4, <1>6, <1>7, <1>8, ClientStep

LEMMA PollStep ==
  ASSUME PageInv, Poll
  PROVE  PageInv'
<1> DEFINE new == [exec EXCEPT !.timer = FALSE]
<1>1. exec \in Execs
  BY PageInvTypes DEF PageType
<1>2. new \in Execs /\ new.shown = exec.shown /\ ~new.timer
  BY <1>1 DEF Execs
<1>3. /\ exec.timer /\ mounted /\ Room(1) /\ exec' = new /\ net' = With(net, "poll", Nothing, TRUE)
      /\ UNCHANGED <<backend, fits, mounted, events, faults>> /\ "poll" \in Kinds
  BY DEF Poll, Here, Kinds
<1>4. events' \in 0..MaxEvents
  BY <1>3, PageInvTypes DEF PageType
<1> HIDE DEF new
<1> QED
  BY <1>2, <1>3, <1>4, Asks

LEMMA AbortAskedStep ==
  ASSUME PageInv, handleAbort
  PROVE  PageInv'
<1> DEFINE new == [exec EXCEPT !.abort = "jobs"]
<1>1. exec \in Execs
  BY PageInvTypes DEF PageType
<1>2. /\ new \in Execs /\ new.shown = exec.shown
      /\ new.timer = exec.timer
  BY <1>1 DEF Execs
<1>3. /\ mounted /\ Room(1) /\ exec' = new /\ net' = With(net, "jobs", Nothing, TRUE)
      /\ UNCHANGED <<backend, fits, mounted, faults>>
      /\ "jobs" \in Kinds /\ "jobs" \notin DriverKinds
  BY DEF handleAbort, AbortEnabled, Kinds, DriverKinds
<1>4. events' \in 0..MaxEvents
  BY PageInvTypes, ExecutionAssumption DEF handleAbort, Counted, PageType
<1> HIDE DEF new
<1> QED
  BY <1>2, <1>3, <1>4, Asks

LEMMA AbortedStep ==
  ASSUME PageInv, Aborted
  PROVE  PageInv'
<1> DEFINE new == [exec EXCEPT !.abort = "no", !.error = "aborted", !.polling = FALSE, !.timer = FALSE]
<1>1. NetType /\ PageType /\ OneDriver /\ LinesFollow
  BY PageInvTypes DEF PageInv
<1>2. /\ new \in Execs /\ new.shown = exec.shown /\ ~new.timer
  BY <1>1 DEF Execs, PageType
<1>3. mounted /\ exec' = new /\ net' = net /\ UNCHANGED <<backend, fits, mounted, events, faults>>
  BY DEF Aborted, Here
<1> HIDE DEF new
<1>4. NetType' /\ NoNews /\ PageType'
  BY <1>1, <1>2, <1>3 DEF NetType, NoNews, PageType
<1>5. OneDriver'
  BY <1>1, <1>2, <1>3 DEF OneDriver, Drives
<1>6. LinesFollow'
  BY <1>1, <1>2, <1>3, <1>4, LinesKept DEF backend, lines
<1> QED
  BY <1>2, <1>3, <1>4, <1>5, <1>6, ClientStep

\* The job list is answered: its call goes, a cancel per job takes free slots.
LEMMA SendCancelsStep ==
  ASSUME PageInv, NEW c \in Slot, SendCancels(c)
  PROVE  PageInv'
<1> DEFINE ds    == net[c].res.jobs
           slots == FreeIn(Without(net, c))
           at    == CHOOSE f \in [ds -> slots] : \A d, e \in ds : f[d] = f[e] => d = e
           who(s) == CHOOSE d \in ds : at[d] = s
           n     == [s \in Slot |-> IF \E d \in ds : at[d] = s
                                    THEN NewCall("cancel", who(s), net[c].live)
                                    ELSE Without(net, c)[s]]
           new   == [exec EXCEPT !.abort = "cancels"]
<1>1. NetType /\ PageType /\ OneDriver /\ LinesFollow
  BY PageInvTypes DEF PageInv
<1>2. Told(c, "jobs") /\ Runs(c, new, n)
  BY DEF SendCancels, Resolved, Told
<1>3. ds \subseteq Job /\ net[c].live \in BOOLEAN
  BY <1>1, <1>2 DEF NetType, Told, Answers, Calls
<1>4. \A q \in Slot : Without(net, c)[q] \in {net[q], NoCall}
  BY <1>1, WithoutType DEF NetType
<1>5. \A q \in Slot : \/ n[q] \in {net[q], NoCall}
                      \/ n[q] \in Calls /\ ~n[q].ok /\ n[q].kind = "cancel" /\ n[q].live = net[c].live
  <2> SUFFICES ASSUME NEW q \in Slot
               PROVE  \/ n[q] \in {net[q], NoCall}
                      \/ n[q] \in Calls /\ ~n[q].ok /\ n[q].kind = "cancel" /\ n[q].live = net[c].live
    BY Zenon
  <2> HIDE DEF at, ds
  <2>1. CASE \E d \in ds : at[d] = q
    <3>1. who(q) \in ds
      BY <2>1
    <3>2. n[q] = NewCall("cancel", who(q), net[c].live)
      BY <2>1
    <3> HIDE DEF who
    <3>3. "cancel" \in Kinds /\ who(q) \in Job \cup {Nothing}
      BY <1>3, <3>1 DEF Kinds
    <3> QED
      BY <1>3, <3>2, <3>3, NewCallType
  <2>2. CASE ~\E d \in ds : at[d] = q
    BY <1>4, <2>2
  <2> QED
    BY SMTT(30), <2>1, <2>2
<1>6. n = [q \in Slot |-> n[q]]
  OBVIOUS
<1> HIDE DEF n
<1>7. /\ net' = n /\ exec' = (IF net[c].live THEN new ELSE exec)
      /\ UNCHANGED <<backend, fits, mounted, events, faults>>
  BY <1>2 DEF Runs
<1>8. new \in Execs /\ new.shown = exec.shown /\ new.timer = exec.timer
  BY <1>1 DEF PageType, Execs
<1> HIDE DEF new
<1>9. NetType' /\ NoNews
  <2>1. n \in [Slot -> Calls]
    BY <1>1, <1>5, <1>6, NoCallType DEF NetType
  <2> QED
    BY <1>1, <1>5, <1>7, <2>1, NoCallType DEF NetType, NoNews
<1>10. PageType'
  BY <1>1, <1>7, <1>8 DEF PageType
<1>11. OneDriver'
  <2>1. \A q \in Slot : Drives(q)' => Drives(q)
    BY <1>5, <1>7, NoCallType DEF Drives
  <2>2. ~mounted' => exec' = ExecInit /\ \A q \in Slot : ~net'[q].live
    BY <1>1, <1>5, <1>7, NoCallType DEF OneDriver
  <2> QED
    BY <1>1, <1>7, <1>8, <2>1, <2>2 DEF OneDriver
<1>12. LinesFollow'
  BY <1>1, <1>7, <1>8, <1>9, LinesKept DEF backend, lines
<1> QED
  BY SMTT(30), <1>7, <1>8, <1>9, <1>10, <1>11, <1>12, ClientStep

-----------------------------------------------------------------------------
(* Arriving and leaving.                                                   *)

\* The page begins anew: calls that outlive it are no longer heard of.
LEMMA Renews ==
  ASSUME PageInv, Visiting, exec' = ExecInit, NetType', NoNews, mounted' \in BOOLEAN,
         \A c, d \in Slot : Drives(c)' /\ Drives(d)' => c = d,
         ~mounted' => \A q \in Slot : ~net'[q].live
  PROVE  PageInv'
<1>1. NetType /\ PageType /\ LinesFollow
  BY PageInvTypes DEF PageInv
<1>2. events < MaxEvents /\ events' = events + 1 /\ UNCHANGED <<backend, fits, faults>>
  BY DEF Visiting, Counted
<1>3. PageType'
  BY <1>1, <1>2, ExecInitType, ExecutionAssumption DEF PageType
<1>4. OneDriver'
  BY ExecInitType DEF OneDriver
<1>5. LinesFollow'
  BY <1>1, <1>2, ExecInitType, LinesKept DEF backend, lines
<1> QED
  BY <1>2, <1>3, <1>4, <1>5, ExecInitType, ClientStep

\* Leaving the page.
LEMMA LeaveStep ==
  ASSUME PageInv, Leave
  PROVE  PageInv'
<1>1. NetType
  BY PageInvTypes
<1>2. Visiting /\ exec' = ExecInit /\ mounted' = FALSE /\ net' = Orphaned(net)
  BY DEF Leave
<1> DEFINE left(q) == [net[q] EXCEPT !.live = FALSE]
<1>3. ASSUME NEW q \in Slot
      PROVE  /\ left(q) \in Calls /\ ~left(q).live /\ left(q).ok = net[q].ok
             /\ left(q).kind = net[q].kind /\ left(q).res = net[q].res /\ left(q).st = net[q].st
  BY ZenonT(60), <1>1 DEF NetType, Calls
<1>4. \A q \in Slot : net'[q] = IF net[q].kind \in Reads THEN NoCall ELSE left(q)
  BY <1>2 DEF Orphaned
<1>5. net' = [q \in Slot |-> net'[q]]
  BY <1>2 DEF Orphaned
<1> HIDE DEF left
<1>6. net' \in [Slot -> Calls]
  BY <1>3, <1>4, <1>5, NoCallType
<1>7. NetType' /\ NoNews
  BY <1>1, <1>3, <1>4, <1>6, NoCallType DEF NetType, NoNews
<1>8. \A q \in Slot : ~net'[q].live
  BY <1>3, <1>4, NoCallType
<1> QED
  BY <1>2, <1>7, <1>8, Renews DEF Drives

\* Mounting on the calls n, none of which is heard.
LEMMA MountStep ==
  ASSUME PageInv, Visiting, NEW n \in [Slot -> Calls], Mount(n),
         \A q \in Slot : n[q] \in {net[q], NoCall} /\ ~n[q].live,
         \E c \in Slot : n[c].st = "idle"
  PROVE  PageInv'
<1>1. NetType
  BY PageInvTypes
<1>2. mounted' = TRUE /\ exec' = ExecInit
  BY DEF Mount
<1>3. CASE IsViewer
  <2>1. net' = n
    BY <1>3 DEF Mount
  <2>2. NetType' /\ NoNews
    BY <1>1, <2>1, NoCallType DEF NetType, NoNews
  <2>3. \A q \in Slot : ~Drives(q)'
    BY <2>1, NoCallType DEF Drives
  <2> QED
    BY <1>2, <2>2, <2>3, Renews
<1>4. CASE ~IsViewer
  <2>1. net' = With(n, "current", Nothing, TRUE) /\ "current" \in Kinds /\ TRUE \in BOOLEAN
    BY <1>4 DEF Mount, Kinds
  <2>0. \A q \in Slot : n[q] \in {net[q], NoCall}
    OBVIOUS
  <2>2. /\ NetType' /\ NoNews
        /\ \E s \in Slot : \A q \in Slot :
             IF q = s THEN net'[q].kind = "current" /\ net'[q].live = TRUE ELSE net'[q] = n[q]
    <3> DEFINE k == "current"
               l == TRUE
    <3>1. k \in Kinds /\ l \in BOOLEAN /\ net' = With(n, k, Nothing, l)
      BY <2>1
    <3> HIDE DEF k, l
    <3>2. /\ NetType' /\ NoNews
          /\ \E s \in Slot : \A q \in Slot :
               IF q = s THEN net'[q].kind = k /\ net'[q].live = l ELSE net'[q] = n[q]
      BY <2>0, <3>1, Puts
    <3> QED
      BY <3>2 DEF k, l
  <2>3. PICK s \in Slot : \A q \in Slot :
             IF q = s THEN net'[q].kind = "current" /\ net'[q].live = TRUE ELSE net'[q] = n[q]
    BY <2>2
  <2>4. \A q \in Slot : (Drives(q)' => q = s)
    BY <2>3, NoCallType DEF Drives
  <2> QED
    BY <1>2, <2>2, <2>4, Renews
<1> QED
  BY <1>3, <1>4

LEMMA ReturnStep ==
  ASSUME PageInv, Return
  PROVE  PageInv'
<1>1. ~mounted /\ Room(1) /\ Visiting /\ Mount(net)
  BY DEF Return
<1>2. NetType /\ OneDriver
  BY DEF PageInv
<1>3. net \in [Slot -> Calls] /\ \A q \in Slot : ~net[q].live
  BY <1>1, <1>2 DEF NetType, OneDriver
<1> QED
  BY <1>1, <1>3, RoomForOne, MountStep

LEMMA ReloadStep ==
  ASSUME PageInv, Reload
  PROVE  PageInv'
<1> DEFINE n == [c \in Slot |-> NoCall]
<1>1. Visiting /\ Mount(n)
  BY DEF Reload
<1>2. n \in [Slot -> Calls] /\ \A q \in Slot : n[q] = NoCall
  BY NoCallType
<1> HIDE DEF n
<1> QED
  BY <1>1, <1>2, NoCallType, CallsAssumption, MountStep

LEMMA NextOK == PageInv /\ [Next]_vars => PageInv'
<1> SUFFICES ASSUME PageInv, [Next]_vars PROVE PageInv'
  OBVIOUS
<1>1. CASE Leave \/ Return \/ Reload
  BY <1>1, LeaveStep, ReturnStep, ReloadStep
<1>2. CASE Poll \/ handleAbort \/ Aborted
  BY <1>2, PollStep, AbortAskedStep, AbortedStep
<1>3. CASE LateStart \/ Agents \/ Retry \/ Close
  BY <1>3, LateStartStep, AgentsStep
<1>4. ASSUME NEW c \in Slot, Served(c) PROVE PageInv'
  BY <1>4, ReadServed, StartRead, StartFinished, PollServed, CancelServed DEF Served
<1>5. ASSUME NEW c \in Slot, Continued(c) PROVE PageInv'
  BY <1>5, JoinStep, StartCollectionStep, StartedStep, FailedStep, PollAnsweredStep,
     SendCancelsStep DEF Continued
<1>6. ASSUME NEW c \in Slot, Retries(c) \/ Breaks(c) \/ ServeError(c) PROVE PageInv'
  BY <1>6, NetworkStep
<1>7. CASE UNCHANGED vars
  <2>1. UNCHANGED <<backend, client, net, faults, exec, mounted, fits, events, base, cursor>>
    BY <1>7 DEF vars, client, backend, lines
  <2>2. NetType' /\ PageType' /\ OneDriver' /\ NoNews
    BY <2>1, PageInvTypes DEF PageInv, NetType, PageType, OneDriver, Drives, NoNews
  <2>3. LinesFollow'
    BY <2>1, <2>2, LinesKept DEF PageInv
  <2> QED
    BY <2>1, <2>2, <2>3, ClientStep
<1> QED
  BY <1>1, <1>2, <1>3, <1>4, <1>5, <1>6, <1>7 DEF Next

-----------------------------------------------------------------------------
(* The theorems.                                                           *)

\* One timer or one call drives the page, a start leaves PENDING for ever and its
\* handlers overlap or come one by one, and the lines of a poll follow those the
\* page shows (CollectionExecution.tsx and the handlers behind it in incidents.py).
THEOREM PageInvariance == Spec => []PageInv
BY InitOK, NextOK, PTL DEF Spec

\* Every call, status and job is one of its kind, whatever starts, polls, retries
\* and reports cross (incidents.py, agents.py, CollectionExecution.tsx).
THEOREM TypeCorrect == Spec => []TypeOK
<1>1. PageInv => TypeOK
  BY DEF PageInv
<1> QED
  BY <1>1, PageInvariance, PTL

\* A collection is started a second time only when two start requests were handled
\* at once: CollectionExecution.tsx asks for a start on every mount that finds none
\* running, and start_collection_endpoint joins or refuses the later ones.  The
\* invariant carries the exception: until an overlap, the handlers that have read
\* PENDING and the starts they committed are one together.
THEOREM CollectionStartedOnce == Spec => []StartedOnce
<1>1. PageInv => StartedOnce
  <2>1. PageInv => starts \in Nat /\ handling \in Nat /\ StartsApart
    BY PageInvTypes DEF PageInv, ServerType
  <2> QED
    BY <2>1 DEF StartsApart, StartedOnce
<1> QED
  BY <1>1, PageInvariance, PTL

\* The log on the page has no line twice and none before an earlier one, whatever
\* polls are lost, repeated or answered after the page was left
\* (CollectionExecution.tsx handlePoll, poll_collection_endpoint).
THEOREM LogShownInOrder == Spec => []LogsInOrder
<1>1. PageInv => LogsInOrder
  <2> SUFFICES ASSUME PageInv PROVE LogsInOrder
    OBVIOUS
  <2>1. Increasing(exec.shown) /\ exec.shown \in Seq(Nat)
    BY PageInvTypes DEF PageInv, LinesFollow, PageType, Execs
  <2>2. Len(exec.shown) \in Nat /\ DOMAIN exec.shown = 1..Len(exec.shown)
    BY <2>1, LinesType
  <2>3. ASSUME NEW i \in 1..(Len(exec.shown) - 1) PROVE exec.shown[i] < exec.shown[i + 1]
    <3>1. i \in DOMAIN exec.shown /\ i + 1 \in DOMAIN exec.shown /\ i < i + 1
      BY <2>2
    <3> QED
      BY <2>1, <3>1 DEF Increasing
  <2> QED
    BY <2>3 DEF LogsInOrder
<1> QED
  BY <1>1, PageInvariance, PTL
=============================================================================
