--------------------------- MODULE LiveConsoleProofs ---------------------------
(***************************************************************************)
(* The live console and the pages of a processing job, for any number of   *)
(* sockets, commands, calls in flight, events and faults.  Every page has  *)
(* an invariant of its own; a page's steps keep it, and no other page's    *)
(* steps are possible on it.  What the pages have in common, the queues,   *)
(* the calls in flight and whose steps are possible where, is stated here. *)
(***************************************************************************)
EXTENDS MCWebConsole, FiniteSetTheorems, SequenceTheorems, WellFoundedInduction, TLAPS

-----------------------------------------------------------------------------
(* Queues.                                                                 *)

Once(t) == \A i, j \in 1..Len(t) : t[i] = t[j] => i = j

\* The values of a sequence are those at its places.
LEMMA InRange ==
  ASSUME NEW S, NEW t \in Seq(S)
  PROVE  /\ DOMAIN t = 1..Len(t) /\ Len(t) \in Nat
         /\ \A x : x \in Range(t) <=> \E i \in 1..Len(t) : t[i] = x
         /\ Range(t) \subseteq S
<1>1. DOMAIN t = 1..Len(t) /\ Len(t) \in Nat /\ \A i \in 1..Len(t) : t[i] \in S
  BY LenProperties, ElementOfSeq
<1> QED
  BY <1>1 DEF Range

\* The empty queue.
LEMMA EmptyQueue == Range(<<>>) = {} /\ Once(<<>>) /\ \A S : <<>> \in Seq(S)
BY DEF Range, Once

\* What putting a value at the end does.
LEMMA Appended ==
  ASSUME NEW S, NEW t \in Seq(S), NEW m \in S
  PROVE  /\ Append(t, m) \in Seq(S) /\ Append(t, m) # <<>>
         /\ Range(Append(t, m)) = Range(t) \cup {m}
         /\ Once(t) /\ m \notin Range(t) => Once(Append(t, m))
<1> DEFINE u == Append(t, m)
<1>1. /\ u \in Seq(S) /\ u # <<>> /\ Len(u) = Len(t) + 1
      /\ \A i \in 1..Len(t) : u[i] = t[i]
      /\ u[Len(t) + 1] = m
  BY AppendProperties
<1> HIDE DEF u
<1>2. Len(t) \in Nat /\ \A i \in 1..Len(u) : i \in 1..Len(t) \/ i = Len(t) + 1
  BY <1>1, LenProperties
<1>3. \A x : x \in Range(u) <=> x \in Range(t) \/ x = m
  <2> SUFFICES ASSUME NEW x PROVE x \in Range(u) <=> x \in Range(t) \/ x = m
    OBVIOUS
  <2>1. x \in Range(u) <=> \E i \in 1..Len(u) : u[i] = x
    BY <1>1, InRange
  <2>2. x \in Range(t) <=> \E i \in 1..Len(t) : t[i] = x
    BY InRange
  <2>3. \A i \in 1..Len(t) : i \in 1..Len(u)
    BY <1>1, <1>2
  <2>4. Len(t) + 1 \in 1..Len(u)
    BY <1>1, <1>2
  <2> QED
    BY <1>1, <1>2, <2>1, <2>2, <2>3, <2>4
<1>4. ASSUME Once(t), m \notin Range(t) PROVE Once(u)
  <2>1. \A i \in 1..Len(t) : t[i] # m
    BY <1>4, InRange
  <2> QED
    BY <1>1, <1>2, <1>4, <2>1 DEF Once
<1> QED
  BY <1>1, <1>3, <1>4 DEF u

\* What taking the first value does.
LEMMA Taken ==
  ASSUME NEW S, NEW t \in Seq(S), t # <<>>
  PROVE  /\ Head(t) \in S /\ Tail(t) \in Seq(S)
         /\ Range(t) = Range(Tail(t)) \cup {Head(t)}
         /\ Once(t) => Once(Tail(t)) /\ Head(t) \notin Range(Tail(t))
<1> DEFINE u == Tail(t)
<1>1. /\ Head(t) \in S /\ u \in Seq(S) /\ Len(u) = Len(t) - 1
      /\ \A i \in 1..Len(u) : u[i] = t[i + 1]
  BY HeadTailProperties
<1>2. Len(t) \in Nat /\ Len(t) # 0
  BY LenProperties, EmptySeq
<1>3. Head(t) = t[1]
  OBVIOUS
<1> HIDE DEF u
<1>4. /\ 1 \in 1..Len(t) /\ \A i \in 1..Len(u) : i + 1 \in 1..Len(t)
      /\ \A i \in 1..Len(t) : i = 1 \/ (i - 1 \in 1..Len(u) /\ (i - 1) + 1 = i)
  BY <1>1, <1>2
<1>5. ASSUME NEW x PROVE x \in Range(t) <=> x \in Range(u) \/ x = Head(t)
  <2>1. x \in Range(u) <=> \E i \in 1..Len(u) : u[i] = x
    BY <1>1, InRange
  <2>2. x \in Range(t) <=> \E i \in 1..Len(t) : t[i] = x
    BY InRange
  <2> QED
    BY <1>1, <1>3, <1>4, <2>1, <2>2
<1>6. ASSUME Once(t) PROVE Once(u) /\ Head(t) \notin Range(u)
  <2>1. \A i, j \in 1..Len(u) : i + 1 = j + 1 => i = j
    BY <1>1, <1>2
  <2>2. \A i \in 1..Len(u) : i + 1 # 1
    BY <1>1, <1>2
  <2>3. Once(u)
    BY <1>1, <1>4, <1>6, <2>1 DEF Once
  <2>4. \A i \in 1..Len(u) : u[i] # t[1]
    BY <1>1, <1>4, <1>6, <2>2 DEF Once
  <2> QED
    BY <1>1, <1>3, <2>3, <2>4, InRange
<1> QED
  BY <1>1, <1>5, <1>6 DEF u

\* Every non-empty set of naturals has a least element.
LEMMA LeastNatural ==
  ASSUME NEW S, S \subseteq Nat, S # {}
  PROVE  \E m \in S : \A n \in S : m <= n
<1>1. PICK m \in S : \A n \in S : ~(<<n, m>> \in OpToRel(<, Nat))
  BY NatLessThanWellFounded, WFMin
<1>2. \A n \in S : ~(n < m)
  BY <1>1 DEF OpToRel
<1>3. m \in Nat /\ \A n \in S : n \in Nat
  BY <1>1
<1>4. \A n \in S : m <= n
  BY <1>2, <1>3
<1> QED
  BY <1>1, <1>4

\* What removing a value that is there once at most does.
LEMMA Removed ==
  ASSUME NEW S, NEW t \in Seq(S), NEW c, Once(t)
  PROVE  /\ RemoveFirst(t, c) \in Seq(S) /\ Once(RemoveFirst(t, c))
         /\ Range(RemoveFirst(t, c)) = Range(t) \ {c}
<1>1. CASE c \notin Range(t)
  <2>1. \A i \in 1..Len(t) : t[i] # c
    BY <1>1, InRange
  <2>2. RemoveFirst(t, c) = t
    BY <2>1 DEF RemoveFirst
  <2> QED
    BY <1>1, <2>2
<1>2. CASE c \in Range(t)
  <2> DEFINE I == {i \in 1..Len(t) : t[i] = c}
             k == SelectInSeq(t, LAMBDA v : v = c)
             u == RemoveAt(t, k)
  <2>1. Len(t) \in Nat /\ I # {} /\ I \subseteq Nat
    BY <1>2, InRange
  <2>2. k = Min(I)
    BY <2>1 DEF SelectInSeq
  <2>3. k \in I
    <3>1. \E m \in I : \A n \in I : m <= n
      BY <2>1, LeastNatural
    <3> QED
      BY <2>2, <3>1 DEF Min
  <2> HIDE DEF k
  <2>4. k \in 1..Len(t) /\ t[k] = c
    BY <2>3
  <2>5. RemoveFirst(t, c) = u
    BY <2>4 DEF RemoveFirst, k
  <2> DEFINE a == SubSeq(t, 1, k - 1)
             b == SubSeq(t, k + 1, Len(t))
  <2>6. /\ a \in Seq(S) /\ Len(a) = k - 1 /\ \A i \in 1..(k - 1) : a[i] = t[i]
    BY <2>1, <2>4, SubSeqProperties
  <2>7. /\ b \in Seq(S) /\ Len(b) = Len(t) - k /\ \A i \in 1..(Len(t) - k) : b[i] = t[k + i]
    BY <2>1, <2>4, SubSeqProperties
  <2>8. u = a \o b
    BY DEF RemoveAt
  <2> HIDE DEF a, b, u
  <2>9. /\ u \in Seq(S) /\ Len(u) = Len(t) - 1
        /\ \A i \in 1..(Len(t) - 1) : u[i] = IF i <= k - 1 THEN a[i] ELSE b[i - (k - 1)]
    <3>1. /\ u \in Seq(S) /\ Len(u) = Len(a) + Len(b)
          /\ \A i \in 1..(Len(a) + Len(b)) : u[i] = IF i <= Len(a) THEN a[i] ELSE b[i - Len(a)]
      BY <2>6, <2>7, <2>8, ConcatProperties
    <3>2. Len(a) + Len(b) = Len(t) - 1
      BY <2>1, <2>4, <2>6, <2>7
    <3> QED
      BY <2>6, <3>1, <3>2
  <2>10. \A i \in 1..(Len(t) - 1) : IF i < k THEN u[i] = t[i] ELSE u[i] = t[i + 1]
    <3> SUFFICES ASSUME NEW i \in 1..(Len(t) - 1) PROVE IF i < k THEN u[i] = t[i] ELSE u[i] = t[i + 1]
      OBVIOUS
    <3>1. CASE i < k
      <4>1. i <= k - 1 /\ i \in 1..(k - 1)
        BY <2>1, <2>4, <3>1
      <4> QED
        BY <2>6, <2>9, <3>1, <4>1
    <3>2. CASE ~(i < k)
      <4>1. ~(i <= k - 1) /\ i - (k - 1) \in 1..(Len(t) - k) /\ k + (i - (k - 1)) = i + 1
        BY <2>1, <2>4, <3>2
      <4> QED
        BY <2>7, <2>9, <3>2, <4>1
    <3> QED
      BY <3>1, <3>2
  <2>11. Once(u)
    <3> SUFFICES ASSUME NEW i \in 1..Len(u), NEW j \in 1..Len(u), u[i] = u[j] PROVE i = j
      BY DEF Once
    <3>1. /\ i \in 1..Len(t) /\ j \in 1..Len(t) /\ i + 1 \in 1..Len(t) /\ j + 1 \in 1..Len(t)
          /\ i \in 1..(Len(t) - 1) /\ j \in 1..(Len(t) - 1)
      BY <2>1, <2>9
    <3>2. \A x, y \in 1..Len(t) : t[x] = t[y] => x = y
      BY DEF Once
    <3>3. /\ i < k /\ j < k => t[i] = t[j]
          /\ i < k /\ ~(j < k) => t[i] = t[j + 1]
          /\ ~(i < k) /\ j < k => t[i + 1] = t[j]
          /\ ~(i < k) /\ ~(j < k) => t[i + 1] = t[j + 1]
      BY <2>10, <3>1
    <3>4. /\ i < k /\ j < k => i = j
          /\ i < k /\ ~(j < k) => i = j + 1
          /\ ~(i < k) /\ j < k => i + 1 = j
          /\ ~(i < k) /\ ~(j < k) => i + 1 = j + 1
      BY <3>1, <3>2, <3>3
    <3> QED
      BY <2>4, <3>1, <3>4
  <2>12. ASSUME NEW x PROVE x \in Range(u) <=> x \in Range(t) /\ x # c
    <3>1. x \in Range(u) <=> \E i \in 1..(Len(t) - 1) : u[i] = x
      BY <2>9, InRange
    <3>2. x \in Range(t) <=> \E i \in 1..Len(t) : t[i] = x
      BY InRange
    <3>3. ASSUME NEW i \in 1..(Len(t) - 1), u[i] = x PROVE x \in Range(t) /\ x # c
      <4>1. i \in 1..Len(t) /\ i + 1 \in 1..Len(t) /\ (i < k => i # k) /\ (~(i < k) => i + 1 # k)
        BY <2>1, <2>4
      <4>2. \A y \in 1..Len(t) : t[y] = c => y = k
        BY <2>4 DEF Once
      <4>3. (i < k => t[i] = x) /\ (~(i < k) => t[i + 1] = x)
        BY <2>10, <3>3
      <4> QED
        BY <3>2, <4>1, <4>2, <4>3
    <3>4. ASSUME NEW i \in 1..Len(t), t[i] = x, x # c PROVE \E j \in 1..(Len(t) - 1) : u[j] = x
      <4>1. i # k
        BY <2>4, <3>4
      <4>2. CASE i < k
        <5>1. i \in 1..(Len(t) - 1)
          BY <2>1, <2>4, <4>2
        <5> QED
          BY <2>10, <3>4, <4>2, <5>1
      <4>3. CASE i > k
        <5>1. i - 1 \in 1..(Len(t) - 1) /\ ~(i - 1 < k) /\ (i - 1) + 1 = i
          BY <2>1, <2>4, <4>3
        <5> QED
          BY <2>10, <3>4, <5>1
      <4> QED
        BY <2>1, <2>4, <4>1, <4>2, <4>3
    <3> QED
      BY <3>1, <3>2, <3>3, <3>4
  <2> QED
    BY <2>5, <2>9, <2>11, <2>12
<1> QED
  BY <1>1, <1>2

-----------------------------------------------------------------------------
(* The live console.  Output and exit code of a command pass through three *)
(* queues: the one of the command, the one of its socket, the terminal.    *)

\* In the queue t an exit code of c comes after an output of c, or the output is
\* already before the queue.
Ordered(t, c, before) ==
  \A i \in 1..Len(t) : t[i] = Line("done", c) =>
    Line("output", c) \in before \/ \E j \in 1..i : t[j] = Line("output", c)

\* Taking messages from a queue and putting them to the next keeps the order.
LEMMA OrderedQueues ==
  ASSUME NEW S, NEW t \in Seq(S), NEW c, NEW B, Ordered(t, c, B)
  PROVE  /\ \A D : B \subseteq D => Ordered(t, c, D)
         /\ \A m \in S : (m = Line("done", c) => Line("output", c) \in B \cup Range(t)) => Ordered(Append(t, m), c, B)
         /\ t # <<>> => (Head(t) = Line("done", c) => Line("output", c) \in B)
         /\ t # <<>> => Ordered(Tail(t), c, B \cup {Head(t)})
<1>0. Line("done", c) # Line("output", c)
  BY DEF Line
<1> DEFINE o == Line("output", c)
           x == Line("done", c)
<1> HIDE DEF o, x
<1>1. \A D : B \subseteq D => Ordered(t, c, D)
  BY DEF Ordered
<1>2. ASSUME NEW m \in S, m = x => o \in B \cup Range(t) PROVE Ordered(Append(t, m), c, B)
  <2> DEFINE u == Append(t, m)
  <2>1. /\ u \in Seq(S) /\ Len(u) = Len(t) + 1 /\ u[Len(t) + 1] = m
        /\ \A i \in 1..Len(t) : u[i] = t[i]
    BY AppendProperties
  <2> HIDE DEF u
  <2>2. Len(t) \in Nat /\ \A i \in 1..Len(u) : i \in 1..Len(t) \/ i = Len(t) + 1
    BY <2>1, LenProperties
  <2> SUFFICES ASSUME NEW i \in 1..Len(u), u[i] = x PROVE o \in B \/ \E j \in 1..i : u[j] = o
    BY DEF Ordered, u, x, o
  <2>3. CASE i \in 1..Len(t)
    <3>1. o \in B \/ \E j \in 1..i : t[j] = o
      BY <2>1, <2>3 DEF Ordered, x, o
    <3>2. \A j \in 1..i : j \in 1..Len(t)
      BY <2>2, <2>3
    <3> QED
      BY <2>1, <3>1, <3>2
  <2>4. CASE i = Len(t) + 1
    <3>1. o \in B \/ \E j \in 1..Len(t) : t[j] = o
      BY <1>2, <2>1, <2>4, InRange
    <3>2. \A j \in 1..Len(t) : j \in 1..i
      BY <2>2, <2>4
    <3> QED
      BY <2>1, <3>1, <3>2
  <2> QED
    BY <2>2, <2>3, <2>4
<1>3. ASSUME t # <<>> PROVE (Head(t) = x => o \in B) /\ Ordered(Tail(t), c, B \cup {Head(t)})
  <2> DEFINE u == Tail(t)
  <2>1. /\ u \in Seq(S) /\ Len(u) = Len(t) - 1 /\ Head(t) = t[1]
        /\ \A i \in 1..Len(u) : u[i] = t[i + 1]
    BY <1>3, HeadTailProperties
  <2>2. Len(t) \in Nat /\ Len(t) # 0
    BY <1>3, LenProperties, EmptySeq
  <2> HIDE DEF u
  <2>3. 1 \in 1..Len(t) /\ \A j \in 1..1 : j = 1
    BY <2>2
  <2>4. Head(t) = x => o \in B
    BY <1>0, <2>1, <2>3 DEF Ordered, x, o
  <2>5. ASSUME NEW i \in 1..Len(u), u[i] = x PROVE o \in B \cup {t[1]} \/ \E j \in 1..i : u[j] = o
    <3>1. i + 1 \in 1..Len(t) /\ t[i + 1] = x
      BY <2>1, <2>2, <2>5
    <3>2. o \in B \/ \E j \in 1..(i + 1) : t[j] = o
      BY <3>1 DEF Ordered, x, o
    <3>3. ASSUME NEW j \in 1..(i + 1), t[j] = o, j # 1 PROVE \E k \in 1..i : u[k] = o
      <4>1. j - 1 \in 1..i /\ j - 1 \in 1..Len(u) /\ (j - 1) + 1 = j
        BY <2>1, <2>2, <3>3
      <4> QED
        BY <2>1, <3>3, <4>1
    <3> QED
      BY <3>2, <3>3
  <2>6. Ordered(u, c, B \cup {t[1]})
    BY <2>5 DEF Ordered, x, o
  <2> QED
    BY <2>1, <2>4, <2>6 DEF u
<1> QED
  BY <1>1, <1>2, <1>3 DEF x, o

\* A socket that is not open yet has no handler and nothing was sent on it.
Blank(d) ==
  \A s \in Sock : d.sock[s].st \in {"none", "opening"} =>
    /\ d.sock[s].srv = "none" /\ d.sock[s].inn = <<>> /\ d.sock[s].out = <<>> /\ d.sock[s].sent = {}

\* Somebody waits for every command that can still be taken, and one only.
Waited(d) ==
  /\ Once(d.pend) /\ Range(d.pend) \subseteq d.wait /\ d.agent \notin Range(d.pend)
  /\ d.wait = ({d.sock[s].cmd : s \in Sock} \cup {d.rest}) \ {0}
  /\ \A s, r \in Sock : s # r /\ d.sock[s].cmd # 0 => d.sock[s].cmd # d.sock[r].cmd
  /\ \A s \in Sock : d.rest # 0 => d.sock[s].cmd # d.rest

\* Commands that nobody has received: those not entered, and those on their way.
New(d, c) == c >= d.next \/ \E s \in Sock : c \in Range(d.sock[s].inn)
Inboxes(d) ==
  /\ \A s \in Sock : Once(d.sock[s].inn) /\ \A c \in Range(d.sock[s].inn) : c < d.next
  /\ \A s, r \in Sock : s # r => Range(d.sock[s].inn) \cap Range(d.sock[r].inn) = {}
  /\ \A c \in Cmd : New(d, c) => c \notin d.wait /\ c # d.agent

\* A command that was not executed yet has no result anywhere.
Unrun(d, c) == New(d, c) \/ c \in Range(d.pend) \/ c = d.agent
Silent(l, d) ==
  /\ \A c \in Cmd : Unrun(d, c) =>
       /\ c \notin d.outs /\ d.chunks[c] = <<>> /\ Line("done", c) \notin Range(l)
       /\ \A s \in Sock : Line("done", c) \notin Range(d.sock[s].out)
  /\ \A c \in Cmd : c \notin d.wait => d.chunks[c] = <<>>
  /\ \A c \in Cmd : Range(d.chunks[c]) \subseteq {Line("output", c), Line("done", c)}

\* What is still owed to an open connection.
Answered(k, d, c) ==
  \/ c \in d.told \/ c \in Range(k.inn) \/ c = k.cmd
  \/ Line("done", c) \in Range(k.out) \/ Line("error", c) \in Range(k.out)
Owed(d) == \A s \in Sock : d.sock[s].st = "open" => \A c \in d.sock[s].sent : Answered(d.sock[s], d, c)

\* A socket whose messages still come to the terminal.
Heard(k) == k.live /\ k.st \in {"open", "ending"}

\* Along terminal, socket and queue, output is before the exit code.
Told(l, d) ==
  \A c \in d.outs : Line("input", c) \in Range(l) =>
    /\ Ordered(l, c, {})
    /\ \A s \in Sock : Heard(d.sock[s]) =>
         /\ Ordered(d.sock[s].out, c, Range(l))
         /\ d.sock[s].cmd = c => Ordered(d.chunks[c], c, Range(l) \cup Range(d.sock[s].out))

ConsoleOK(l, d) ==
  /\ l \in Seq(Lines) /\ d \in ConsoleDbs /\ AtWork(d)
  /\ Blank(d) /\ Waited(d) /\ Inboxes(d) /\ Silent(l, d) /\ Owed(d) /\ Told(l, d)

\* The parts of the server's state.
LEMMA DbParts ==
  ASSUME NEW d \in ConsoleDbs
  PROVE  /\ d.sock \in [Sock -> Socks] /\ d.next \in 1..(MaxCmd + 1) /\ d.pend \in Seq(Cmd) /\ d.wait \subseteq Cmd
         /\ d.chunks \in [Cmd -> Seq(Replies)] /\ d.rest \in {0} \cup Cmd /\ d.agent \in {0} \cup Cmd
         /\ d.outs \subseteq Cmd /\ d.told \subseteq Cmd
BY DEF ConsoleDbs

\* The parts of a socket.
LEMMA SockParts ==
  ASSUME NEW k \in Socks
  PROVE  /\ k.live \in BOOLEAN /\ k.cmd \in {0} \cup Cmd /\ k.inn \in Seq(Cmd) /\ k.out \in Seq(Replies) /\ k.sent \subseteq Cmd
         /\ k.srv \in {"none", "recv", "queued", "wait", "end"}
BY DEF Socks

\* Commands are numbered from 1, and a reply is not an input.
LEMMA CmdType ==
  /\ \A c \in Cmd : c \in Nat /\ c # 0
  /\ Replies \subseteq Lines
  /\ \A c : Line("input", c) \notin Replies
  /\ \A c, b : /\ Line("done", c) # Line("output", b) /\ Line("done", c) # Line("error", b) /\ Line("done", c) # Line("queued", b)
               /\ Line("done", c) # Line("input", b)
               /\ Line("done", c) = Line("done", b) => c = b
               /\ Line("output", c) = Line("output", b) => c = b
               /\ Line("error", c) = Line("error", b) => c = b
  /\ \A c \in Cmd, t \in {"queued", "output", "done", "error"} : Line(t, c) \in Replies
  /\ \A c \in Cmd : Line("input", c) \in Lines
BY ConsoleAssumption DEF Cmd, Lines, Replies, Line

\* A step of the browser that changes sockets and terminal only: messages are
\* dropped, never added, and a socket that begins to be heard is blank.
LEMMA BrowserStep ==
  ASSUME NEW l, NEW d, NEW m, NEW e, ConsoleOK(l, d),
         m \in Seq(Lines), e \in ConsoleDbs, AtWork(e), Blank(e),
         /\ e.next = d.next /\ e.pend = d.pend /\ e.wait = d.wait /\ e.chunks = d.chunks /\ e.rest = d.rest
         /\ e.agent = d.agent /\ e.outs = d.outs /\ e.told = d.told,
         m = l \/ m = <<>>,
         \A s \in Sock :
           /\ e.sock[s].cmd = d.sock[s].cmd /\ e.sock[s].inn = d.sock[s].inn
           /\ e.sock[s].out = d.sock[s].out \/ e.sock[s].out = <<>>
           /\ e.sock[s].st = "open" => e.sock[s].sent = {} \/ (/\ d.sock[s].st = "open" /\ e.sock[s].out = d.sock[s].out
                                                               /\ e.sock[s].sent = d.sock[s].sent)
           /\ Heard(e.sock[s]) => \/ Heard(d.sock[s]) /\ e.sock[s].out = d.sock[s].out
                                  \/ e.sock[s].out = <<>> /\ e.sock[s].cmd = 0
  PROVE  ConsoleOK(m, e)
<1>1. Waited(e)
  BY DEF ConsoleOK, Waited
<1>2. \A c : New(e, c) <=> New(d, c)
  BY DEF New
<1>3. Inboxes(e)
  BY <1>2 DEF ConsoleOK, Inboxes
<1>4. Range(m) \subseteq Range(l) /\ \A s \in Sock : Range(e.sock[s].out) \subseteq Range(d.sock[s].out)
  BY EmptyQueue
<1>5. Silent(m, e)
  <2>1. \A c : Unrun(e, c) <=> Unrun(d, c)
    BY <1>2 DEF Unrun
  <2>2. Silent(l, d)
    BY DEF ConsoleOK
  <2> HIDE DEF Range, Line
  <2> QED
    BY <1>4, <2>1, <2>2 DEF Silent
<1>6. Owed(e)
  <2> SUFFICES ASSUME NEW s \in Sock, e.sock[s].st = "open", NEW c \in e.sock[s].sent
               PROVE  Answered(e.sock[s], e, c)
    BY DEF Owed
  <2>1. d.sock[s].st = "open" /\ e.sock[s].out = d.sock[s].out /\ e.sock[s].sent = d.sock[s].sent
    OBVIOUS
  <2>2. Answered(d.sock[s], d, c)
    BY <2>1 DEF ConsoleOK, Owed
  <2> QED
    BY <2>1, <2>2 DEF Answered
<1>7. Told(m, e)
  <2> SUFFICES ASSUME NEW c \in e.outs, Line("input", c) \in Range(m)
               PROVE  /\ Ordered(m, c, {})
                      /\ \A s \in Sock : Heard(e.sock[s]) =>
                           /\ Ordered(e.sock[s].out, c, Range(m))
                           /\ e.sock[s].cmd = c => Ordered(e.chunks[c], c, Range(m) \cup Range(e.sock[s].out))
    BY DEF Told
  <2>1. m = l /\ c \in d.outs
    BY EmptyQueue
  <2>2. c # 0
    BY <2>1, DbParts, CmdType DEF ConsoleOK
  <2>3. Ordered(<<>>, c, Range(m))
    BY DEF Ordered
  <2> QED
    BY <2>1, <2>2, <2>3 DEF ConsoleOK, Told
<1> QED
  BY <1>1, <1>3, <1>5, <1>6, <1>7 DEF ConsoleOK

\* Only the socket s differs, and the queues of the commands do not.
OnlySock(d, e, s) ==
  /\ e \in ConsoleDbs /\ AtWork(e) /\ Blank(e)
  /\ e.next = d.next /\ e.pend = d.pend /\ e.wait = d.wait /\ e.chunks = d.chunks /\ e.rest = d.rest
  /\ e.agent = d.agent /\ e.outs = d.outs
  /\ \A r \in Sock \ {s} : e.sock[r] = d.sock[r]

\* The first message of a socket is shown, when the page that opened it is there.
LEMMA MessageStep ==
  ASSUME NEW l, NEW d, NEW m, NEW e, NEW s \in Sock, ConsoleOK(l, d), OnlySock(d, e, s),
         d.sock[s].out # <<>>, d.sock[s].st \in {"open", "ending"},
         LET k == d.sock[s] n == e.sock[s] x == Head(k.out) IN
         /\ n.st = k.st /\ n.live = k.live /\ n.cmd = k.cmd /\ n.inn = k.inn /\ n.sent = k.sent /\ n.out = Tail(k.out)
         /\ m = IF k.live THEN Append(l, x) ELSE l
         /\ d.told \subseteq e.told
         /\ \A c : x = Line("done", c) \/ x = Line("error", c) => c \in e.told
  PROVE  ConsoleOK(m, e)
<1> DEFINE k == d.sock[s]
           n == e.sock[s]
           x == Head(k.out)
<1>1. /\ n.st = k.st /\ n.live = k.live /\ n.cmd = k.cmd /\ n.inn = k.inn /\ n.sent = k.sent /\ n.out = Tail(k.out)
      /\ m = IF k.live THEN Append(l, x) ELSE l
      /\ d.told \subseteq e.told
      /\ \A c : x = Line("done", c) \/ x = Line("error", c) => c \in e.told
  OBVIOUS
<1>2. /\ l \in Seq(Lines) /\ d \in ConsoleDbs /\ k \in Socks /\ k.out \in Seq(Replies) /\ k.live \in BOOLEAN
  BY DbParts, SockParts DEF ConsoleOK
<1>3. /\ x \in Replies /\ n.out \in Seq(Replies) /\ Range(k.out) = Range(n.out) \cup {x}
  BY <1>1, <1>2, Taken
<1>4. m \in Seq(Lines) /\ Range(l) \subseteq Range(m) /\ Range(m) \subseteq Range(l) \cup {x} /\ (k.live => Range(m) = Range(l) \cup {x})
  <2>1. x \in Lines
    BY <1>3, CmdType
  <2> QED
    BY <1>1, <1>2, <2>1, Appended
<1>5. /\ e.next = d.next /\ e.pend = d.pend /\ e.wait = d.wait /\ e.chunks = d.chunks /\ e.rest = d.rest
      /\ e.agent = d.agent /\ e.outs = d.outs
      /\ \A r \in Sock : /\ e.sock[r].cmd = d.sock[r].cmd /\ e.sock[r].inn = d.sock[r].inn
                         /\ e.sock[r].st = d.sock[r].st /\ e.sock[r].sent = d.sock[r].sent /\ e.sock[r].live = d.sock[r].live
                         /\ r # s => e.sock[r].out = d.sock[r].out
      /\ e \in ConsoleDbs /\ AtWork(e) /\ Blank(e)
  BY <1>1 DEF OnlySock
<1> HIDE DEF k, n, x
<1>6. Waited(e)
  BY <1>5 DEF ConsoleOK, Waited
<1>7. \A c : (New(e, c) <=> New(d, c)) /\ (Unrun(e, c) <=> Unrun(d, c))
  BY <1>5 DEF New, Unrun
<1>8. Inboxes(e)
  BY <1>5, <1>7 DEF ConsoleOK, Inboxes
<1>9. Silent(m, e)
  <2>1. Silent(l, d)
    BY DEF ConsoleOK
  <2>2. \A r \in Sock : Range(e.sock[r].out) \subseteq Range(d.sock[r].out)
    BY <1>3, <1>5 DEF k, n
  <2>3. Range(m) \subseteq Range(l) \cup Range(d.sock[s].out)
    BY <1>3, <1>4 DEF k
  <2> QED
    BY ZenonT(60), <1>5, <1>7, <2>1, <2>2, <2>3 DEF Silent
<1>10. Owed(e)
  <2> SUFFICES ASSUME NEW r \in Sock, e.sock[r].st = "open", NEW c \in e.sock[r].sent PROVE Answered(e.sock[r], e, c)
    BY DEF Owed
  <2>1. Answered(d.sock[r], d, c)
    BY <1>5 DEF ConsoleOK, Owed
  <2>2. CASE r # s
    BY <1>1, <1>5, <2>1, <2>2 DEF Answered
  <2>3. CASE r = s
    BY <1>1, <1>3, <1>5, <2>1, <2>3 DEF Answered, k, n
  <2> QED
    BY <2>2, <2>3
<1>11. Told(m, e)
  <2> SUFFICES ASSUME NEW c \in e.outs, Line("input", c) \in Range(m)
               PROVE  /\ Ordered(m, c, {})
                      /\ \A r \in Sock : Heard(e.sock[r]) =>
                           /\ Ordered(e.sock[r].out, c, Range(m))
                           /\ e.sock[r].cmd = c => Ordered(e.chunks[c], c, Range(m) \cup Range(e.sock[r].out))
    BY DEF Told
  <2>0. c \in Cmd /\ c \in d.outs /\ d.chunks[c] \in Seq(Replies)
    BY <1>2, <1>5, DbParts
  <2>1. Line("input", c) \in Range(l)
    BY <1>3, <1>4, CmdType
  <2>2. /\ Ordered(l, c, {})
        /\ \A r \in Sock : Heard(d.sock[r]) =>
             /\ Ordered(d.sock[r].out, c, Range(l))
             /\ d.sock[r].cmd = c => Ordered(d.chunks[c], c, Range(l) \cup Range(d.sock[r].out))
    BY <2>0, <2>1 DEF ConsoleOK, Told
  <2>3. k.live => Heard(k) /\ Ordered(k.out, c, Range(l))
    BY <2>2 DEF Heard, k
  <2>4. k.live => (x = Line("done", c) => Line("output", c) \in Range(l)) /\ Ordered(n.out, c, Range(l) \cup {x})
    <3>1. k.out # <<>> /\ x = Head(k.out) /\ n.out = Tail(k.out)
      BY <1>1 DEF k, x, n
    <3> QED
      BY <1>2, <2>3, <3>1, OrderedQueues
  <2>5. Ordered(m, c, {})
    <3>1. x \in Lines
      BY <1>3, CmdType
    <3>2. k.live => Ordered(Append(l, x), c, {})
      BY <1>2, <2>2, <2>4, <3>1, OrderedQueues
    <3> QED
      BY <1>1, <2>2, <3>2
  <2>6. ASSUME NEW r \in Sock, Heard(e.sock[r])
        PROVE  /\ Ordered(e.sock[r].out, c, Range(m))
               /\ e.sock[r].cmd = c => Ordered(e.chunks[c], c, Range(m) \cup Range(e.sock[r].out))
    <3>1. Heard(d.sock[r])
      BY <1>5, <2>6 DEF Heard
    <3>2. d.sock[r].out \in Seq(Replies)
      BY <1>2, DbParts, SockParts
    <3>3. CASE r # s
      <4>1. Ordered(d.sock[r].out, c, Range(m))
        BY <1>4, <2>2, <3>1, <3>2, OrderedQueues
      <4>2. d.sock[r].cmd = c => Ordered(d.chunks[c], c, Range(m) \cup Range(d.sock[r].out))
        <5>1. Range(l) \cup Range(d.sock[r].out) \subseteq Range(m) \cup Range(d.sock[r].out)
          BY <1>4
        <5> QED
          BY <2>0, <2>2, <3>1, <5>1, OrderedQueues
      <4> QED
        BY <1>5, <3>3, <4>1, <4>2
    <3>4. CASE r = s
      <4>0. k.live
        BY <3>1, <3>4 DEF Heard, k
      <4>1. Ordered(n.out, c, Range(m))
        BY <1>4, <2>4, <4>0
      <4>2. d.sock[r].cmd = c => Ordered(d.chunks[c], c, Range(m) \cup Range(n.out))
        <5>1. Range(l) \cup Range(k.out) \subseteq Range(m) \cup Range(n.out)
          BY <1>3, <1>4, <4>0
        <5> QED
          BY <2>0, <2>2, <3>1, <3>4, <5>1, OrderedQueues DEF k
      <4> QED
        BY <1>5, <3>4, <4>1, <4>2 DEF n
    <3> QED
      BY <3>3, <3>4
  <2> QED
    BY <2>5, <2>6
<1> QED
  BY <1>4, <1>5, <1>6, <1>8, <1>9, <1>10, <1>11 DEF ConsoleOK

\* Commands do not become unexecuted again, and queues change only for those that
\* were executed: what was silent stays so.
LEMMA SilentKept ==
  ASSUME NEW l, NEW d, NEW m, NEW e, Silent(l, d), e.outs = d.outs,
         \A c \in Cmd : Unrun(e, c) => Unrun(d, c),
         \A c \in Cmd : \/ e.chunks[c] = <<>>
                        \/ e.chunks[c] = d.chunks[c] /\ (c \in d.wait => c \in e.wait)
                        \/ ~Unrun(d, c) /\ c \in e.wait /\ Range(e.chunks[c]) \subseteq Range(d.chunks[c]),
         \A c \in Cmd : Unrun(d, c) =>
           /\ Line("done", c) \in Range(m) => Line("done", c) \in Range(l)
           /\ \A s \in Sock : Line("done", c) \in Range(e.sock[s].out) => Line("done", c) \in Range(d.sock[s].out)
  PROVE  Silent(m, e)
<1>1. Range(<<>>) = {}
  BY EmptyQueue
<1>2. \A c \in Cmd : c \notin e.wait => e.chunks[c] = <<>>
  BY DEF Silent
<1>3. \A c \in Cmd : Range(e.chunks[c]) \subseteq {Line("output", c), Line("done", c)}
  BY <1>1 DEF Silent
<1>4. ASSUME NEW c \in Cmd, Unrun(e, c)
      PROVE  /\ c \notin e.outs /\ e.chunks[c] = <<>> /\ Line("done", c) \notin Range(m)
             /\ \A s \in Sock : Line("done", c) \notin Range(e.sock[s].out)
  BY <1>4 DEF Silent
<1> QED
  BY <1>2, <1>3, <1>4 DEF Silent

\* The order along the other sockets is what it was.
LEMMA ToldKept ==
  ASSUME NEW l, NEW d, NEW e, NEW s \in Sock, Told(l, d), e.outs = d.outs,
         \A r \in Sock \ {s} : /\ e.sock[r] = d.sock[r]
                               /\ d.sock[r].cmd \in d.outs => e.chunks[d.sock[r].cmd] = d.chunks[d.sock[r].cmd],
         \A c \in d.outs :
           /\ Heard(e.sock[s]) /\ Line("input", c) \in Range(l)
           => /\ Ordered(e.sock[s].out, c, Range(l))
              /\ e.sock[s].cmd = c => Ordered(e.chunks[c], c, Range(l) \cup Range(e.sock[s].out))
  PROVE  Told(l, e)
<1> SUFFICES ASSUME NEW c \in e.outs, Line("input", c) \in Range(l), NEW r \in Sock, Heard(e.sock[r])
             PROVE  /\ Ordered(e.sock[r].out, c, Range(l))
                    /\ e.sock[r].cmd = c => Ordered(e.chunks[c], c, Range(l) \cup Range(e.sock[r].out))
  BY DEF Told
<1>1. CASE r = s
  BY <1>1
<1>2. CASE r # s
  <2>1. e.sock[r] = d.sock[r] /\ Heard(d.sock[r])
    BY <1>2
  <2>2. /\ Ordered(d.sock[r].out, c, Range(l))
        /\ d.sock[r].cmd = c => Ordered(d.chunks[c], c, Range(l) \cup Range(d.sock[r].out))
    BY <2>1 DEF Told
  <2> QED
    BY <1>2, <2>1, <2>2
<1> QED
  BY <1>1, <1>2

\* What is owed on the other sockets is what it was.
LEMMA OwedKept ==
  ASSUME NEW d, NEW e, NEW s \in Sock, Owed(d), d.told \subseteq e.told,
         \A r \in Sock \ {s} : e.sock[r] = d.sock[r],
         e.sock[s].st = "open" => \A c \in e.sock[s].sent : Answered(e.sock[s], e, c)
  PROVE  Owed(e)
<1> SUFFICES ASSUME NEW r \in Sock, r # s, e.sock[r].st = "open", NEW c \in e.sock[r].sent
             PROVE  Answered(e.sock[r], e, c)
  BY DEF Owed
<1>1. e.sock[r] = d.sock[r] /\ Answered(d.sock[r], d, c)
  BY DEF Owed
<1> QED
  BY <1>1 DEF Answered

\* The handler of a socket sends a message that is no exit code, or drops commands
\* it has not received; a connection that stays open hears of each one dropped.
LEMMA HandlerStep ==
  ASSUME NEW l, NEW d, NEW e, NEW s \in Sock, NEW x, ConsoleOK(l, d), OnlySock(d, e, s), e.told = d.told,
         LET k == d.sock[s] n == e.sock[s] IN
         /\ n.live = k.live /\ n.cmd = k.cmd /\ n.sent = k.sent
         /\ n.out = k.out \/ (x \in Replies /\ n.out = Append(k.out, x))
         /\ Once(n.inn) /\ Range(n.inn) \subseteq Range(k.inn)
         /\ n.st \in {"open", "ending"} => k.st \in {"open", "ending"}
         /\ n.st = "open" => /\ k.st = "open"
                             /\ \A c \in Range(k.inn) : c \in Range(n.inn) \/ Line("error", c) \in Range(n.out),
         \A c : x # Line("done", c)
  PROVE  ConsoleOK(l, e)
<1> DEFINE k == d.sock[s]
           n == e.sock[s]
<1>1. /\ n.live = k.live /\ n.cmd = k.cmd /\ n.sent = k.sent
      /\ n.out = k.out \/ (x \in Replies /\ n.out = Append(k.out, x))
      /\ Once(n.inn) /\ Range(n.inn) \subseteq Range(k.inn)
      /\ n.st \in {"open", "ending"} => k.st \in {"open", "ending"}
      /\ n.st = "open" => /\ k.st = "open"
                          /\ \A c \in Range(k.inn) : c \in Range(n.inn) \/ Line("error", c) \in Range(n.out)
  OBVIOUS
<1>2. l \in Seq(Lines) /\ d \in ConsoleDbs /\ k \in Socks /\ k.out \in Seq(Replies)
  BY DbParts, SockParts DEF ConsoleOK
<1>3. Range(k.out) \subseteq Range(n.out) /\ Range(n.out) \subseteq Range(k.out) \cup {x}
  <2> HIDE DEF k, n
  <2>1. CASE n.out = k.out
    BY <2>1
  <2>2. CASE x \in Replies /\ n.out = Append(k.out, x)
    <3>1. Range(Append(k.out, x)) = Range(k.out) \cup {x}
      BY <1>2, <2>2, Appended
    <3> QED
      BY <2>2, <3>1
  <2> QED
    BY <1>1, <2>1, <2>2
<1>4. /\ e.next = d.next /\ e.pend = d.pend /\ e.wait = d.wait /\ e.chunks = d.chunks /\ e.rest = d.rest
      /\ e.agent = d.agent /\ e.outs = d.outs
      /\ \A r \in Sock \ {s} : e.sock[r] = d.sock[r]
      /\ \A r \in Sock : e.sock[r].cmd = d.sock[r].cmd /\ Range(e.sock[r].inn) \subseteq Range(d.sock[r].inn)
      /\ \A r \in Sock : Range(e.sock[r].out) \subseteq Range(d.sock[r].out) \cup {x}
      /\ e \in ConsoleDbs /\ AtWork(e) /\ Blank(e)
  BY ZenonT(60), <1>1, <1>3 DEF OnlySock
<1>5. Waited(e)
  BY <1>4 DEF ConsoleOK, Waited
<1>6. \A c : (New(e, c) => New(d, c)) /\ (Unrun(e, c) => Unrun(d, c))
  BY <1>4 DEF New, Unrun
<1>7. Inboxes(e)
  <2>1. \A r \in Sock : Once(e.sock[r].inn)
    BY Zenon, <1>1, <1>4 DEF ConsoleOK, Inboxes
  <2> QED
    BY ZenonT(60), <1>4, <1>6, <2>1 DEF ConsoleOK, Inboxes
<1>8. Silent(l, e)
  <2>1. Silent(l, d)
    BY DEF ConsoleOK
  <2>2. \A c : \A r \in Sock : Line("done", c) \in Range(e.sock[r].out) => Line("done", c) \in Range(d.sock[r].out)
    BY <1>4
  <2> QED
    BY <1>4, <1>6, <2>1, <2>2, SilentKept
<1>9. Owed(e)
  <2>1. ASSUME n.st = "open", NEW c \in n.sent PROVE Answered(n, e, c)
    <3>1. Answered(k, d, c)
      BY <1>1, <2>1 DEF ConsoleOK, Owed
    <3> QED
      BY SMTT(30), <1>1, <1>3, <2>1, <3>1 DEF Answered
  <2>2. Owed(d)
    BY DEF ConsoleOK
  <2> QED
    BY ZenonT(60), <1>4, <2>1, <2>2, OwedKept
<1>10. Told(l, e)
  <2>1. ASSUME NEW c \in d.outs, Heard(n), Line("input", c) \in Range(l)
        PROVE  /\ Ordered(n.out, c, Range(l))
               /\ n.cmd = c => Ordered(e.chunks[c], c, Range(l) \cup Range(n.out))
    <3>1. Heard(k)
      BY <1>1, <2>1 DEF Heard
    <3>2. /\ Ordered(k.out, c, Range(l))
          /\ k.cmd = c => Ordered(d.chunks[c], c, Range(l) \cup Range(k.out))
      BY <2>1, <3>1 DEF ConsoleOK, Told
    <3>3. Ordered(n.out, c, Range(l))
      <4> HIDE DEF k, n
      <4>1. CASE n.out = k.out
        BY <3>2, <4>1
      <4>2. CASE x \in Replies /\ n.out = Append(k.out, x)
        <5>1. Ordered(k.out, c, Range(l)) /\ x # Line("done", c)
          BY <3>2
        <5>2. Ordered(Append(k.out, x), c, Range(l))
          BY <1>2, <4>2, <5>1, OrderedQueues
        <5> QED
          BY <4>2, <5>2
      <4> QED
        BY <1>1, <4>1, <4>2
    <3>4. d.chunks[c] \in Seq(Replies)
      BY <1>2, DbParts
    <3>5. Range(l) \cup Range(k.out) \subseteq Range(l) \cup Range(n.out)
      BY <1>3
    <3> HIDE DEF k, n
    <3>6. k.cmd = c => Ordered(d.chunks[c], c, Range(l) \cup Range(n.out))
      BY <3>2, <3>4, <3>5, OrderedQueues
    <3> QED
      BY SMTT(30), <1>1, <1>4, <3>3, <3>6
  <2>2. Told(l, d)
    BY DEF ConsoleOK
  <2> QED
    BY ZenonT(60), <1>4, <2>1, <2>2, ToldKept
<1> QED
  BY <1>2, <1>4, <1>5, <1>7, <1>8, <1>9, <1>10 DEF ConsoleOK

\* The agent takes a command from the list, a command is lost, or its result is.
LEMMA AgentStep ==
  ASSUME NEW l, NEW d, NEW e, ConsoleOK(l, d), e \in ConsoleDbs,
         /\ e.sock = d.sock /\ e.next = d.next /\ e.wait = d.wait /\ e.chunks = d.chunks /\ e.rest = d.rest
         /\ e.outs = d.outs /\ e.told = d.told,
         /\ Once(e.pend) /\ Range(e.pend) \subseteq Range(d.pend) /\ e.agent \notin Range(e.pend)
         /\ e.agent = 0 \/ e.agent = d.agent \/ e.agent \in Range(d.pend)
  PROVE  ConsoleOK(l, e)
<1>1. AtWork(e) /\ Blank(e) /\ Owed(e) /\ Told(l, e)
  BY ZenonT(60) DEF ConsoleOK, AtWork, Blank, Owed, Answered, Told
<1>2. Waited(e)
  BY DEF ConsoleOK, Waited
<1>3. \A c \in Cmd : (New(e, c) <=> New(d, c)) /\ (Unrun(e, c) => Unrun(d, c))
  BY CmdType DEF New, Unrun
<1>4. Inboxes(e)
  <2>1. \A c \in Cmd : New(e, c) => c \notin e.wait /\ c # e.agent
    BY <1>3, CmdType DEF ConsoleOK, Inboxes, Waited
  <2> QED
    BY <2>1 DEF ConsoleOK, Inboxes
<1>5. Silent(l, e)
  BY <1>3, SilentKept DEF ConsoleOK
<1> QED
  BY <1>1, <1>2, <1>4, <1>5 DEF ConsoleOK

\* The handler of a socket receives a command and puts it into the agent's list.
LEMMA ReceiveStep ==
  ASSUME NEW l, NEW d, NEW e, NEW s \in Sock, NEW c, ConsoleOK(l, d), e \in ConsoleDbs, AtWork(e), Blank(e),
         d.sock[s].cmd = 0, d.sock[s].inn # <<>>, c = Head(d.sock[s].inn),
         /\ e.next = d.next /\ e.chunks = d.chunks /\ e.rest = d.rest /\ e.agent = d.agent
         /\ e.outs = d.outs /\ e.told = d.told /\ e.pend = Append(d.pend, c) /\ e.wait = d.wait \cup {c},
         \A r \in Sock \ {s} : e.sock[r] = d.sock[r],
         LET k == d.sock[s] n == e.sock[s] IN
           /\ n.st = k.st /\ n.live = k.live /\ n.sent = k.sent /\ n.out = k.out
           /\ n.inn = Tail(k.inn) /\ n.cmd = c
  PROVE  ConsoleOK(l, e)
<1> DEFINE k == d.sock[s]
           n == e.sock[s]
<1>1. /\ n.st = k.st /\ n.live = k.live /\ n.sent = k.sent /\ n.out = k.out
      /\ n.inn = Tail(k.inn) /\ n.cmd = c /\ k.cmd = 0 /\ k.inn # <<>> /\ c = Head(k.inn)
  OBVIOUS
<1>2. /\ l \in Seq(Lines) /\ d \in ConsoleDbs /\ k \in Socks /\ k.inn \in Seq(Cmd) /\ d.pend \in Seq(Cmd) /\ d.next \in Nat
      /\ d.wait \subseteq Cmd
  BY DbParts, SockParts, ConsoleAssumption DEF ConsoleOK
<1> HIDE DEF k, n
<1>3. c \in Cmd /\ Range(k.inn) = Range(n.inn) \cup {c} /\ (Once(k.inn) => Once(n.inn) /\ c \notin Range(n.inn))
  BY <1>1, <1>2, Taken
<1>4. New(d, c) /\ c < d.next
  BY <1>3 DEF New, ConsoleOK, Inboxes, k
<1>5. c \notin d.wait /\ c # d.agent /\ c # 0 /\ Once(k.inn)
  BY <1>3, <1>4, CmdType DEF ConsoleOK, Inboxes, k
<1>6. Waited(e)
  <2>1. Waited(d)
    BY DEF ConsoleOK
  <2>2. c \notin Range(d.pend) /\ \A r \in Sock : d.sock[r].cmd # c
    BY <1>5, <2>1 DEF Waited
  <2>3. d.rest # c
    BY <1>5, <2>1 DEF Waited
  <2>4. Once(e.pend) /\ Range(e.pend) = Range(d.pend) \cup {c}
    BY <1>2, <1>3, <2>1, <2>2, Appended DEF Waited
  <2>5. /\ Range(e.pend) \subseteq e.wait /\ e.agent \notin Range(e.pend)
    BY <1>5, <2>1, <2>4 DEF Waited
  <2>6. \A r \in Sock : e.sock[r].cmd = IF r = s THEN c ELSE d.sock[r].cmd
    BY <1>1 DEF n
  <2>7. e.wait = ({e.sock[r].cmd : r \in Sock} \cup {e.rest}) \ {0}
    <3>1. d.wait = ({d.sock[r].cmd : r \in Sock} \cup {d.rest}) \ {0}
      BY <2>1 DEF Waited
    <3>2. ASSUME NEW x PROVE x \in e.wait <=> x \in ({e.sock[r].cmd : r \in Sock} \cup {e.rest}) \ {0}
      BY <1>1, <1>5, <2>6, <3>1 DEF k
    <3> QED
      BY <3>2
  <2>8. \A r, t \in Sock : r # t /\ e.sock[r].cmd # 0 => e.sock[r].cmd # e.sock[t].cmd
    BY <2>1, <2>2, <2>6 DEF Waited
  <2>9. \A r \in Sock : e.rest # 0 => e.sock[r].cmd # e.rest
    BY <2>1, <2>3, <2>6 DEF Waited
  <2> QED
    BY <2>4, <2>5, <2>7, <2>8, <2>9 DEF Waited
<1>7. \A r \in Sock : Range(e.sock[r].inn) \subseteq Range(d.sock[r].inn) /\ c \notin Range(e.sock[r].inn) /\ Once(e.sock[r].inn)
  <2> SUFFICES ASSUME NEW r \in Sock
               PROVE  Range(e.sock[r].inn) \subseteq Range(d.sock[r].inn) /\ c \notin Range(e.sock[r].inn) /\ Once(e.sock[r].inn)
    OBVIOUS
  <2>1. CASE r = s
    BY <1>3, <1>5, <2>1 DEF k, n
  <2>2. CASE r # s
    BY <1>3, <2>2 DEF k, ConsoleOK, Inboxes
  <2> QED
    BY <2>1, <2>2
<1>8. \A x \in Cmd : (New(e, x) => New(d, x) /\ x # c) /\ (Unrun(e, x) => Unrun(d, x))
  <2>0. \A x \in Cmd : x >= d.next => x # c
    <3>1. \A x \in Cmd : x \in Nat
      BY CmdType
    <3> QED
      BY <1>2, <1>3, <1>4, <3>1
  <2>1. \A x \in Cmd : New(e, x) => New(d, x) /\ x # c
    BY <1>7, <2>0 DEF New
  <2>2. Range(e.pend) = Range(d.pend) \cup {c}
    BY <1>2, <1>3, Appended
  <2> QED
    BY <1>4, <2>1, <2>2 DEF Unrun
<1>9. Inboxes(e)
  <2>1. \A x \in Cmd : New(e, x) => x \notin e.wait /\ x # e.agent
    BY <1>8 DEF ConsoleOK, Inboxes
  <2> QED
    BY <1>7, <2>1 DEF ConsoleOK, Inboxes
<1>10. \A r \in Sock : e.sock[r].out = d.sock[r].out
  BY <1>1 DEF k, n
<1>11. Silent(l, e)
  BY <1>8, <1>10, SilentKept DEF ConsoleOK
<1>12. Owed(e)
  <2>1. ASSUME n.st = "open", NEW x \in n.sent PROVE Answered(n, e, x)
    <3>1. Answered(k, d, x) /\ x # 0
      BY <1>1, <1>2, <2>1, SockParts, CmdType DEF ConsoleOK, Owed, k
    <3> QED
      BY <1>1, <1>3, <3>1 DEF Answered
  <2> QED
    BY <2>1, OwedKept DEF ConsoleOK, n
<1>13. Told(l, e)
  <2>0. c \notin d.outs
    BY <1>3, <1>4 DEF ConsoleOK, Silent, Unrun
  <2>1. ASSUME NEW x \in d.outs, Heard(n), Line("input", x) \in Range(l)
        PROVE  Ordered(n.out, x, Range(l)) /\ n.cmd # x
    <3>1. Heard(k)
      BY <1>1, <2>1 DEF Heard
    <3>2. Ordered(k.out, x, Range(l))
      BY <2>1, <3>1 DEF ConsoleOK, Told, k
    <3> QED
      BY <1>1, <2>0, <2>1, <3>2
  <2>2. Told(l, d)
    BY DEF ConsoleOK
  <2>3. e.outs = d.outs /\ e.chunks = d.chunks /\ \A r \in Sock \ {s} : e.sock[r] = d.sock[r]
    OBVIOUS
  <2>4. \A x \in d.outs :
          Heard(e.sock[s]) /\ Line("input", x) \in Range(l)
          => /\ Ordered(e.sock[s].out, x, Range(l))
             /\ e.sock[s].cmd = x => Ordered(e.chunks[x], x, Range(l) \cup Range(e.sock[s].out))
    BY <2>1 DEF n
  <2> QED
    BY <2>2, <2>3, <2>4, ToldKept
<1> QED
  BY <1>2, <1>6, <1>9, <1>11, <1>12, <1>13 DEF ConsoleOK

\* Nobody waits for the command c any more: it leaves the list and its queue goes.
Released(d, e, c) ==
  /\ e \in ConsoleDbs /\ AtWork(e) /\ Blank(e)
  /\ e.next = d.next /\ e.agent = d.agent /\ e.outs = d.outs /\ e.told = d.told
  /\ e.pend = RemoveFirst(d.pend, c) /\ e.wait = d.wait \ {c} /\ e.chunks = [d.chunks EXCEPT ![c] = <<>>]

\* What the end of a command means for the list and for the other commands.
LEMMA ReleasedParts ==
  ASSUME NEW l, NEW d, NEW e, NEW c \in Cmd, ConsoleOK(l, d), Released(d, e, c),
         \A r \in Sock : Once(e.sock[r].inn) /\ Range(e.sock[r].inn) \subseteq Range(d.sock[r].inn)
  PROVE  /\ Once(e.pend) /\ Range(e.pend) \subseteq e.wait /\ e.agent \notin Range(e.pend)
         /\ Inboxes(e)
         /\ \A x \in Cmd : Unrun(e, x) => Unrun(d, x)
         /\ \A x \in Cmd : e.chunks[x] = IF x = c THEN <<>> ELSE d.chunks[x]
<1>1. Once(e.pend) /\ Range(e.pend) = Range(d.pend) \ {c}
  <2>1. d.pend \in Seq(Cmd) /\ Once(d.pend)
    BY DbParts DEF ConsoleOK, Waited
  <2> QED
    BY <2>1, Removed DEF Released
<1>2. Range(e.pend) \subseteq e.wait /\ e.agent \notin Range(e.pend)
  BY <1>1 DEF ConsoleOK, Waited, Released
<1>3. \A x \in Cmd : (New(e, x) => New(d, x)) /\ (Unrun(e, x) => Unrun(d, x))
  BY <1>1 DEF New, Unrun, Released
<1>4. Inboxes(e)
  BY ZenonT(60), <1>3 DEF ConsoleOK, Inboxes, Released
<1>5. \A x \in Cmd : e.chunks[x] = IF x = c THEN <<>> ELSE d.chunks[x]
  BY DbParts DEF ConsoleOK, Released
<1> QED
  BY <1>1, <1>2, <1>3, <1>4, <1>5

\* The handler of s turns from its command c, with what the socket is sent at last.
Ended(d, e, s, c) ==
  /\ c = d.sock[s].cmd /\ e.rest = d.rest
  /\ \A r \in Sock \ {s} : e.sock[r] = d.sock[r]
  /\ LET k == d.sock[s] n == e.sock[s] IN
       /\ n.st = k.st /\ n.live = k.live /\ n.sent = k.sent /\ n.cmd = 0
       /\ n.inn = k.inn \/ (n.inn = <<>> /\ n.st # "open")
       /\ \/ n.out = k.out /\ n.st # "open"
          \/ n.out = Append(k.out, Line("error", c))
          \/ n.out = Append(k.out, Line("done", c)) /\ d.chunks[c] # <<>> /\ Head(d.chunks[c]) = Line("done", c)

\* The handler of a socket is done with its command: it was told the exit code
\* or an error, or the connection is gone.
LEMMA EndStep ==
  ASSUME NEW l, NEW d, NEW e, NEW s \in Sock, NEW c \in Cmd, ConsoleOK(l, d), Released(d, e, c), Ended(d, e, s, c)
  PROVE  ConsoleOK(l, e)
<1> DEFINE k == d.sock[s]
           n == e.sock[s]
           x == Line("done", c)
           y == Line("error", c)
<1>1. /\ n.st = k.st /\ n.live = k.live /\ n.sent = k.sent /\ n.cmd = 0 /\ k.cmd = c
      /\ n.inn = k.inn \/ (n.inn = <<>> /\ n.st # "open")
      /\ \/ n.out = k.out /\ n.st # "open"
         \/ n.out = Append(k.out, y)
         \/ n.out = Append(k.out, x) /\ d.chunks[c] # <<>> /\ Head(d.chunks[c]) = x
      /\ e.rest = d.rest /\ \A r \in Sock \ {s} : e.sock[r] = d.sock[r]
  BY Zenon DEF Ended
<1>2. /\ l \in Seq(Lines) /\ d \in ConsoleDbs /\ k \in Socks /\ k.out \in Seq(Replies) /\ k.inn \in Seq(Cmd)
      /\ \A b \in Cmd : d.chunks[b] \in Seq(Replies)
  BY DbParts, SockParts DEF ConsoleOK
<1>3. x \in Replies /\ y \in Replies /\ c # 0 /\ x # y /\ \A b : y # Line("done", b)
  <2>1. c # 0
    BY CmdType
  <2> QED
    BY <2>1 DEF Line, Replies
<1> HIDE DEF k, n, x, y
<1>4. /\ Range(k.out) \subseteq Range(n.out)
      /\ n.st = "open" => x \in Range(n.out) \/ y \in Range(n.out)
      /\ \A b : Line("done", b) \in Range(n.out) => Line("done", b) \in Range(k.out) \/ (b = c /\ d.chunks[c] # <<>>)
  <2>1. Range(Append(k.out, x)) = Range(k.out) \cup {x} /\ Range(Append(k.out, y)) = Range(k.out) \cup {y}
    BY <1>2, <1>3, Appended
  <2>2. \A b : Line("done", b) = x => b = c
    BY DEF x, Line
  <2> QED
    BY <1>1, <1>3, <2>1, <2>2
<1>5. \A r \in Sock : Once(e.sock[r].inn) /\ Range(e.sock[r].inn) \subseteq Range(d.sock[r].inn)
  <2>1. \A r \in Sock : Once(d.sock[r].inn)
    BY DEF ConsoleOK, Inboxes
  <2>2. Once(n.inn) /\ Range(n.inn) \subseteq Range(k.inn)
    BY <1>1, <2>1, EmptyQueue DEF k
  <2> QED
    BY <1>1, <2>1, <2>2 DEF n, k
<1>6. /\ Once(e.pend) /\ Range(e.pend) \subseteq e.wait /\ e.agent \notin Range(e.pend)
      /\ Inboxes(e)
      /\ \A b \in Cmd : Unrun(e, b) => Unrun(d, b)
      /\ \A b \in Cmd : e.chunks[b] = IF b = c THEN <<>> ELSE d.chunks[b]
  BY <1>5, ReleasedParts
<1>7. Waited(e)
  <2>1. Waited(d)
    BY DEF ConsoleOK
  <2>2. \A r \in Sock : e.sock[r].cmd = IF r = s THEN 0 ELSE d.sock[r].cmd
    BY <1>1 DEF n
  <2>3. d.rest # c /\ \A r \in Sock : r # s => d.sock[r].cmd # c
    BY <1>1, <1>3, <2>1 DEF Waited, k
  <2>4. e.wait = ({e.sock[r].cmd : r \in Sock} \cup {e.rest}) \ {0}
    <3>1. d.wait = ({d.sock[r].cmd : r \in Sock} \cup {d.rest}) \ {0} /\ e.wait = d.wait \ {c}
      BY <2>1 DEF Waited, Released
    <3>2. d.sock[s].cmd = c
      BY <1>1 DEF k
    <3>3. ASSUME NEW b PROVE b \in e.wait <=> b \in ({e.sock[r].cmd : r \in Sock} \cup {e.rest}) \ {0}
      <4>1. b \in d.wait <=> (b # 0 /\ (b = d.rest \/ \E r \in Sock : d.sock[r].cmd = b))
        BY <3>1
      <4>2. (\E r \in Sock : e.sock[r].cmd = b) /\ b # 0 <=> (\E r \in Sock : r # s /\ d.sock[r].cmd = b) /\ b # 0
        BY <2>2
      <4> QED
        BY <1>1, <2>3, <3>1, <3>2, <4>1, <4>2
    <3> QED
      BY <3>3
  <2>5. \A r, t \in Sock : r # t /\ e.sock[r].cmd # 0 => e.sock[r].cmd # e.sock[t].cmd
    <3>1. \A r, t \in Sock : r # t /\ d.sock[r].cmd # 0 => d.sock[r].cmd # d.sock[t].cmd
      BY <2>1 DEF Waited
    <3> QED
      BY <2>2, <3>1
  <2>6. \A r \in Sock : e.rest # 0 => e.sock[r].cmd # e.rest
    BY <1>1, <2>1, <2>2 DEF Waited
  <2> QED
    BY <1>6, <2>4, <2>5, <2>6 DEF Waited
<1>8. Silent(l, e)
  <2>1. Silent(l, d) /\ e.outs = d.outs /\ \A b \in Cmd : b \in d.wait /\ b # c => b \in e.wait
    BY DEF ConsoleOK, Released
  <2>2. \A b \in Cmd : Unrun(d, b) => d.chunks[b] = <<>>
    BY SMTT(30), <2>1 DEF Silent
  <2>3. \A b \in Cmd : Unrun(d, b) =>
          /\ Line("done", b) \in Range(l) => Line("done", b) \in Range(l)
          /\ \A r \in Sock : Line("done", b) \in Range(e.sock[r].out) => Line("done", b) \in Range(d.sock[r].out)
    BY <1>1, <1>4, <2>2 DEF n, k
  <2>4. \A b \in Cmd : \/ e.chunks[b] = <<>>
                       \/ e.chunks[b] = d.chunks[b] /\ (b \in d.wait => b \in e.wait)
                       \/ ~Unrun(d, b) /\ b \in e.wait /\ Range(e.chunks[b]) \subseteq Range(d.chunks[b])
    BY <1>6, <2>1
  <2>5. \A b \in Cmd : Unrun(e, b) => Unrun(d, b)
    BY <1>6
  <2>6. Silent(l, d) /\ e.outs = d.outs
    BY <2>1
  <2> HIDE DEF Silent, Unrun, Line, Range
  <2> QED
    BY <2>3, <2>4, <2>5, <2>6, SilentKept, SMTT(60)
<1>9. Owed(e)
  <2>1. ASSUME n.st = "open", NEW b \in n.sent PROVE Answered(n, e, b)
    <3>1. Answered(k, d, b)
      BY <1>1, <2>1 DEF ConsoleOK, Owed, k
    <3>2. n.inn = k.inn /\ e.told = d.told
      BY <1>1, <2>1 DEF Released
    <3>3. CASE b = c
      BY <1>4, <2>1, <3>3 DEF Answered, x, y
    <3>4. CASE b # c
      BY <1>1, <1>4, <3>1, <3>2, <3>4 DEF Answered
    <3> QED
      BY <3>3, <3>4
  <2>2. Owed(d) /\ d.told \subseteq e.told
    BY DEF ConsoleOK, Released
  <2>3. e.sock[s].st = "open" => \A b \in e.sock[s].sent : Answered(e.sock[s], e, b)
    BY <2>1 DEF n
  <2> QED
    BY <1>1, <2>2, <2>3, OwedKept
<1>10. Told(l, e)
  <2>1. ASSUME NEW b \in d.outs, Heard(n), Line("input", b) \in Range(l)
        PROVE  Ordered(n.out, b, Range(l)) /\ n.cmd # b
    <3>0. b \in Cmd /\ b # 0
      BY <1>2, DbParts, CmdType
    <3>1. Heard(k)
      BY <1>1, <2>1 DEF Heard
    <3>2. /\ Ordered(k.out, b, Range(l))
          /\ b = c => Ordered(d.chunks[c], c, Range(l) \cup Range(k.out))
      BY <1>1, <2>1, <3>1 DEF ConsoleOK, Told, k
    <3>3. Ordered(Append(k.out, y), b, Range(l))
      <4>1. y # Line("done", b)
        BY <1>3
      <4> QED
        BY <1>2, <1>3, <3>2, <4>1, OrderedQueues
    <3>4. ASSUME d.chunks[c] # <<>>, Head(d.chunks[c]) = x PROVE Ordered(Append(k.out, x), b, Range(l))
      <4>1. b = c => Line("output", c) \in Range(l) \cup Range(k.out)
        BY <1>2, <3>2, <3>4, OrderedQueues DEF x
      <4>2. x = Line("done", b) => b = c
        BY DEF x, Line
      <4>3. x = Line("done", b) => Line("output", b) \in Range(l) \cup Range(k.out)
        BY <4>1, <4>2
      <4> QED
        BY <1>2, <1>3, <3>2, <4>3, OrderedQueues
    <3>5. Ordered(n.out, b, Range(l))
      BY <1>1, <3>2, <3>3, <3>4
    <3> QED
      BY <1>1, <3>0, <3>5
  <2>2. Told(l, d) /\ e.outs = d.outs
    BY DEF ConsoleOK, Released
  <2>3. \A b \in d.outs :
          Heard(e.sock[s]) /\ Line("input", b) \in Range(l)
          => /\ Ordered(e.sock[s].out, b, Range(l))
             /\ e.sock[s].cmd = b => Ordered(e.chunks[b], b, Range(l) \cup Range(e.sock[s].out))
    BY <2>1 DEF n
  <2>4. \A r \in Sock \ {s} : d.sock[r].cmd \in d.outs => e.chunks[d.sock[r].cmd] = d.chunks[d.sock[r].cmd]
    <3>1. \A r \in Sock \ {s} : d.sock[r].cmd # c
      BY <1>1, <1>3 DEF ConsoleOK, Waited, k
    <3> QED
      BY <1>2, <1>6, <3>1, DbParts
  <2> QED
    BY <1>1, <2>2, <2>3, <2>4, ToldKept
<1> QED
  BY <1>2, <1>6, <1>7, <1>8, <1>9, <1>10 DEF ConsoleOK, Released

\* POST /run ends, with what was printed or without.
LEMMA RunEndStep ==
  ASSUME NEW l, NEW d, NEW e, NEW c \in Cmd, ConsoleOK(l, d), Released(d, e, c),
         c = d.rest, e.rest = 0, e.sock = d.sock
  PROVE  ConsoleOK(l, e)
<1>0. c # 0
  BY CmdType
<1>1. \A r \in Sock : Once(e.sock[r].inn) /\ Range(e.sock[r].inn) \subseteq Range(d.sock[r].inn)
  BY DEF ConsoleOK, Inboxes
<1>2. /\ Once(e.pend) /\ Range(e.pend) \subseteq e.wait /\ e.agent \notin Range(e.pend)
      /\ Inboxes(e)
      /\ \A b \in Cmd : Unrun(e, b) => Unrun(d, b)
      /\ \A b \in Cmd : e.chunks[b] = IF b = c THEN <<>> ELSE d.chunks[b]
  BY <1>1, ReleasedParts
<1>3. \A r \in Sock : d.sock[r].cmd # c
  BY <1>0 DEF ConsoleOK, Waited
<1>4. Waited(e)
  <2>1. e.wait = ({e.sock[r].cmd : r \in Sock} \cup {e.rest}) \ {0}
    <3>1. d.wait = ({d.sock[r].cmd : r \in Sock} \cup {d.rest}) \ {0} /\ e.wait = d.wait \ {c}
      BY DEF ConsoleOK, Waited, Released
    <3> QED
      BY <1>0, <1>3, <3>1
  <2>2. /\ \A r, t \in Sock : r # t /\ e.sock[r].cmd # 0 => e.sock[r].cmd # e.sock[t].cmd
        /\ \A r \in Sock : e.rest # 0 => e.sock[r].cmd # e.rest
    BY DEF ConsoleOK, Waited
  <2> QED
    BY <1>2, <2>1, <2>2 DEF Waited
<1>5. Silent(l, e)
  <2>1. Silent(l, d) /\ e.outs = d.outs
    BY DEF ConsoleOK, Released
  <2>2. \A b \in Cmd : b \in d.wait /\ b # c => b \in e.wait
    BY DEF Released
  <2>3. \A b \in Cmd : \/ e.chunks[b] = <<>>
                       \/ e.chunks[b] = d.chunks[b] /\ (b \in d.wait => b \in e.wait)
                       \/ ~Unrun(d, b) /\ b \in e.wait /\ Range(e.chunks[b]) \subseteq Range(d.chunks[b])
    BY <1>2, <2>2
  <2> QED
    BY <1>2, <2>1, <2>3, SilentKept, SMTT(60)
<1>6. Owed(e)
  BY DEF ConsoleOK, Owed, Answered, Released
<1>7. Told(l, e)
  <2> SUFFICES ASSUME NEW b \in e.outs, Line("input", b) \in Range(l)
               PROVE  /\ Ordered(l, b, {})
                      /\ \A r \in Sock : Heard(e.sock[r]) =>
                           /\ Ordered(e.sock[r].out, b, Range(l))
                           /\ e.sock[r].cmd = b => Ordered(e.chunks[b], b, Range(l) \cup Range(e.sock[r].out))
    BY DEF Told
  <2>1. b \in d.outs /\ b \in Cmd
    BY DbParts DEF Released, ConsoleOK
  <2>2. /\ Ordered(l, b, {})
        /\ \A r \in Sock : Heard(d.sock[r]) =>
             /\ Ordered(d.sock[r].out, b, Range(l))
             /\ d.sock[r].cmd = b => Ordered(d.chunks[b], b, Range(l) \cup Range(d.sock[r].out))
    BY <2>1 DEF ConsoleOK, Told
  <2> QED
    BY <1>2, <1>3, <2>1, <2>2
<1> QED
  BY <1>2, <1>4, <1>5, <1>6, <1>7 DEF ConsoleOK, Released

\* POST /run enters a command of its own.
LEMMA RunStep ==
  ASSUME NEW l, NEW d, NEW e, NEW c \in Cmd, ConsoleOK(l, d), e \in ConsoleDbs,
         c = d.next, d.rest = 0, e.rest = c, e.next = c + 1,
         /\ e.sock = d.sock /\ e.chunks = d.chunks /\ e.agent = d.agent /\ e.outs = d.outs /\ e.told = d.told
         /\ e.pend = Append(d.pend, c) /\ e.wait = d.wait \cup {c}
  PROVE  ConsoleOK(l, e)
<1>1. c \in Nat /\ c # 0 /\ d.pend \in Seq(Cmd) /\ \A x \in Cmd : x \in Nat
  BY DbParts, CmdType DEF ConsoleOK
<1>2. New(d, c)
  BY <1>1 DEF New
<1>3. c \notin d.wait /\ c # d.agent
  BY <1>2 DEF ConsoleOK, Inboxes
<1>4. AtWork(e) /\ Blank(e) /\ Owed(e) /\ Told(l, e)
  BY ZenonT(60) DEF ConsoleOK, AtWork, Blank, Owed, Answered, Told
<1>5. Waited(e)
  <2>1. c \notin Range(d.pend) /\ Once(d.pend) /\ \A r \in Sock : d.sock[r].cmd # c
    BY <1>1, <1>3 DEF ConsoleOK, Waited
  <2>2. Once(e.pend) /\ Range(e.pend) = Range(d.pend) \cup {c}
    BY <1>1, <2>1, Appended
  <2>3. e.wait = ({e.sock[r].cmd : r \in Sock} \cup {e.rest}) \ {0}
    <3>1. d.wait = ({d.sock[r].cmd : r \in Sock} \cup {d.rest}) \ {0}
      BY DEF ConsoleOK, Waited
    <3> QED
      BY <1>1, <3>1
  <2>4. Range(e.pend) \subseteq e.wait /\ e.agent \notin Range(e.pend)
    BY <1>3, <2>2 DEF ConsoleOK, Waited
  <2>5. \A r, t \in Sock : r # t /\ e.sock[r].cmd # 0 => e.sock[r].cmd # e.sock[t].cmd
    BY DEF ConsoleOK, Waited
  <2>6. \A r \in Sock : e.rest # 0 => e.sock[r].cmd # e.rest
    BY <2>1
  <2> QED
    BY <2>2, <2>3, <2>4, <2>5, <2>6 DEF Waited
<1>6. \A x \in Cmd : (New(e, x) => New(d, x) /\ x # c) /\ (Unrun(e, x) => Unrun(d, x))
  <2>1. \A x \in Cmd : x >= e.next => x >= d.next /\ x # c
    BY <1>1
  <2>2. \A r \in Sock : c \notin Range(d.sock[r].inn)
    <3>1. \A r \in Sock : \A x \in Range(d.sock[r].inn) : x < c
      BY DEF ConsoleOK, Inboxes
    <3>2. ~(c < c)
      BY <1>1
    <3> QED
      BY <3>1, <3>2
  <2>3. \A x \in Cmd : New(e, x) => New(d, x) /\ x # c
    BY <2>1, <2>2 DEF New
  <2>4. Range(e.pend) = Range(d.pend) \cup {c}
    BY <1>1, Appended
  <2> QED
    BY <1>2, <2>3, <2>4 DEF Unrun
<1>7. Inboxes(e)
  <2>1. \A x \in Cmd : New(e, x) => x \notin e.wait /\ x # e.agent
    BY <1>6 DEF ConsoleOK, Inboxes
  <2>2. \A r \in Sock : \A x \in Range(d.sock[r].inn) : x < e.next
    <3>1. \A r \in Sock : \A x \in Range(d.sock[r].inn) : x < c /\ x \in Nat
      BY <1>1, DbParts, SockParts, InRange DEF ConsoleOK, Inboxes
    <3>2. \A x \in Nat : x < c => x < e.next
      BY <1>1
    <3> QED
      BY <3>1, <3>2
  <2> QED
    BY <2>1, <2>2 DEF ConsoleOK, Inboxes
<1>8. Silent(l, e)
  BY <1>6, SilentKept, SMTT(60) DEF ConsoleOK
<1> QED
  BY <1>4, <1>5, <1>7, <1>8 DEF ConsoleOK

\* The first output of the command c goes from its queue to the socket s.
Passed(d, e, s, c) ==
  /\ e \in ConsoleDbs /\ AtWork(e) /\ Blank(e)
  /\ c = d.sock[s].cmd /\ d.chunks[c] # <<>> /\ Head(d.chunks[c]) # Line("done", c)
  /\ e.next = d.next /\ e.pend = d.pend /\ e.wait = d.wait /\ e.rest = d.rest
  /\ e.agent = d.agent /\ e.outs = d.outs /\ e.told = d.told
  /\ e.chunks = [d.chunks EXCEPT ![c] = Tail(@)]
  /\ \A r \in Sock \ {s} : e.sock[r] = d.sock[r]
  /\ LET k == d.sock[s] n == e.sock[s] IN
       /\ n.st = k.st /\ n.live = k.live /\ n.sent = k.sent /\ n.cmd = k.cmd /\ n.inn = k.inn
       /\ n.out = Append(k.out, Head(d.chunks[c])) \/ (n.out = k.out /\ n.st \notin {"open", "ending"})

\* An output that is not the end of a command is passed on to its socket.
LEMMA PassStep ==
  ASSUME NEW l, NEW d, NEW e, NEW s \in Sock, NEW c \in Cmd, ConsoleOK(l, d), Passed(d, e, s, c)
  PROVE  ConsoleOK(l, e)
<1> DEFINE k == d.sock[s]
           n == e.sock[s]
           t == d.chunks[c]
           x == Head(t)
<1>1. /\ n.st = k.st /\ n.live = k.live /\ n.sent = k.sent /\ n.cmd = c /\ k.cmd = c /\ n.inn = k.inn
      /\ n.out = Append(k.out, x) \/ (n.out = k.out /\ n.st \notin {"open", "ending"})
      /\ \A r \in Sock \ {s} : e.sock[r] = d.sock[r]
      /\ t # <<>> /\ x # Line("done", c)
      /\ e \in ConsoleDbs /\ AtWork(e) /\ Blank(e)
      /\ e.next = d.next /\ e.pend = d.pend /\ e.wait = d.wait /\ e.rest = d.rest
      /\ e.agent = d.agent /\ e.outs = d.outs /\ e.told = d.told
  BY DEF Passed
<1>2. /\ l \in Seq(Lines) /\ d \in ConsoleDbs /\ k \in Socks /\ k.out \in Seq(Replies) /\ t \in Seq(Replies)
      /\ \A b \in Cmd : e.chunks[b] = IF b = c THEN Tail(t) ELSE d.chunks[b]
  <2>1. l \in Seq(Lines) /\ d \in ConsoleDbs
    BY DEF ConsoleOK
  <2>2. d.chunks \in [Cmd -> Seq(Replies)] /\ k \in Socks
    BY <2>1, DbParts
  <2>3. k.out \in Seq(Replies)
    BY <2>2, SockParts
  <2>4. e.chunks = [d.chunks EXCEPT ![c] = Tail(@)]
    BY DEF Passed
  <2> QED
    BY <2>1, <2>2, <2>3, <2>4
<1> HIDE DEF k, n, t, x
<1>3. x \in Replies /\ Range(t) = Range(Tail(t)) \cup {x}
  BY <1>1, <1>2, Taken DEF x
<1>4. x = Line("output", c) /\ \A b : x # Line("done", b)
  <2>1. Range(t) \subseteq {Line("output", c), Line("done", c)}
    BY DEF ConsoleOK, Silent, t
  <2> QED
    BY <1>1, <1>3, <2>1 DEF Line
<1>5. Range(k.out) \subseteq Range(n.out) /\ Range(n.out) \subseteq Range(k.out) \cup {x}
  <2>1. Range(Append(k.out, x)) = Range(k.out) \cup {x}
    BY <1>2, <1>3, Appended
  <2> QED
    BY <1>1, <2>1
<1>6. /\ \A r \in Sock : e.sock[r].cmd = d.sock[r].cmd /\ e.sock[r].inn = d.sock[r].inn
      /\ \A r \in Sock : Range(e.sock[r].out) \subseteq Range(d.sock[r].out) \cup {x}
  BY <1>1, <1>5 DEF k, n
<1>7. Waited(e)
  <2>1. Waited(d)
    BY DEF ConsoleOK
  <2>2. \A r \in Sock : e.sock[r].cmd = d.sock[r].cmd
    BY <1>6
  <2>3. {e.sock[r].cmd : r \in Sock} = {d.sock[r].cmd : r \in Sock}
    BY <2>2
  <2> QED
    BY <1>1, <2>1, <2>2, <2>3 DEF Waited
<1>8. \A b \in Cmd : (New(e, b) <=> New(d, b)) /\ (Unrun(e, b) <=> Unrun(d, b))
  BY <1>1, <1>6 DEF New, Unrun
<1>9. Inboxes(e)
  BY <1>1, <1>6, <1>8 DEF ConsoleOK, Inboxes
<1>10. Silent(l, e)
  <2>1. Silent(l, d) /\ e.outs = d.outs
    BY <1>1 DEF ConsoleOK
  <2>2. c \in e.wait /\ ~Unrun(d, c)
    <3>1. c \in d.wait
      <4>1. c # 0
        BY CmdType
      <4>2. \A r \in Sock : d.sock[r].cmd # 0 => d.sock[r].cmd \in d.wait
        BY DEF ConsoleOK, Waited
      <4> QED
        BY <1>1, <4>1, <4>2 DEF k
    <3> QED
      BY <1>1, <2>1, <3>1 DEF Silent, t
  <2>3. \A b \in Cmd : \/ e.chunks[b] = <<>>
                       \/ e.chunks[b] = d.chunks[b] /\ (b \in d.wait => b \in e.wait)
                       \/ ~Unrun(d, b) /\ b \in e.wait /\ Range(e.chunks[b]) \subseteq Range(d.chunks[b])
    <3>1. e.chunks[c] = Tail(t) /\ Range(Tail(t)) \subseteq Range(t) /\ d.chunks[c] = t
      BY <1>2, <1>3 DEF t
    <3>2. \A b \in Cmd : b # c => e.chunks[b] = d.chunks[b]
      BY <1>2
    <3> QED
      BY <1>1, <2>2, <3>1, <3>2
  <2>4. \A b \in Cmd : Unrun(d, b) =>
          /\ Line("done", b) \in Range(l) => Line("done", b) \in Range(l)
          /\ \A r \in Sock : Line("done", b) \in Range(e.sock[r].out) => Line("done", b) \in Range(d.sock[r].out)
    BY <1>4, <1>6
  <2>5. \A b \in Cmd : Unrun(e, b) => Unrun(d, b)
    BY <1>8
  <2> QED
    BY <2>1, <2>3, <2>4, <2>5, SilentKept, SMTT(60)
<1>11. Owed(e)
  <2>1. ASSUME n.st = "open", NEW b \in n.sent PROVE Answered(n, e, b)
    <3>1. Answered(k, d, b)
      BY <1>1, <2>1 DEF ConsoleOK, Owed, k
    <3> QED
      BY <1>1, <1>5, <3>1 DEF Answered
  <2>2. Owed(d) /\ d.told \subseteq e.told
    BY <1>1 DEF ConsoleOK
  <2>3. e.sock[s].st = "open" => \A b \in e.sock[s].sent : Answered(e.sock[s], e, b)
    BY <2>1 DEF n
  <2> QED
    BY <1>1, <2>2, <2>3, OwedKept
<1>12. Told(l, e)
  <2>1. ASSUME NEW b \in d.outs, Heard(n), Line("input", b) \in Range(l)
        PROVE  /\ Ordered(n.out, b, Range(l))
               /\ n.cmd = b => Ordered(Tail(t), b, Range(l) \cup Range(n.out))
    <3>1. Heard(k) /\ n.out = Append(k.out, x) /\ Range(Append(k.out, x)) = Range(k.out) \cup {x}
      BY <1>1, <1>2, <1>3, <2>1, Appended DEF Heard
    <3>2. /\ Ordered(k.out, b, Range(l))
          /\ k.cmd = b => Ordered(t, b, Range(l) \cup Range(k.out))
      BY <1>1, <2>1, <3>1 DEF ConsoleOK, Told, k, t
    <3>3. Ordered(n.out, b, Range(l))
      <4>1. x # Line("done", b)
        BY <1>4
      <4>2. Ordered(Append(k.out, x), b, Range(l))
        BY <1>2, <1>3, <3>2, <4>1, OrderedQueues
      <4> QED
        BY <3>1, <4>2
    <3>4. ASSUME n.cmd = b PROVE Ordered(Tail(t), b, Range(l) \cup Range(n.out))
      <4>1. Ordered(t, b, Range(l) \cup Range(k.out))
        BY <1>1, <3>2, <3>4
      <4>2. Ordered(Tail(t), b, (Range(l) \cup Range(k.out)) \cup {x})
        BY <1>1, <1>2, <4>1, OrderedQueues DEF x
      <4>3. (Range(l) \cup Range(k.out)) \cup {x} = Range(l) \cup Range(n.out)
        BY <3>1
      <4> QED
        BY <4>2, <4>3
    <3> QED
      BY <3>3, <3>4
  <2>2. Told(l, d) /\ e.outs = d.outs
    BY <1>1 DEF ConsoleOK
  <2>3. \A b \in d.outs :
          Heard(e.sock[s]) /\ Line("input", b) \in Range(l)
          => /\ Ordered(e.sock[s].out, b, Range(l))
             /\ e.sock[s].cmd = b => Ordered(e.chunks[b], b, Range(l) \cup Range(e.sock[s].out))
    BY <1>1, <1>2, <2>1 DEF n
  <2>4. \A r \in Sock \ {s} : d.sock[r].cmd \in d.outs => e.chunks[d.sock[r].cmd] = d.chunks[d.sock[r].cmd]
    <3>0. c # 0
      BY CmdType
    <3>1. \A r \in Sock \ {s} : d.sock[r].cmd # c
      BY <1>1, <3>0 DEF ConsoleOK, Waited, k
    <3> QED
      BY <1>2, <3>1, DbParts
  <2> QED
    BY <1>1, <2>2, <2>3, <2>4, ToldKept
<1> QED
  BY SMTT(30), <1>1, <1>2, <1>7, <1>9, <1>10, <1>11, <1>12 DEF ConsoleOK

\* A command is entered on the socket s.
Entered(l, d, m, e, s, c) ==
  /\ e \in ConsoleDbs /\ AtWork(e) /\ Blank(e) /\ m = Append(l, Line("input", c))
  /\ c = d.next /\ e.next = c + 1 /\ e.pend = d.pend /\ e.wait = d.wait /\ e.chunks = d.chunks /\ e.rest = d.rest
  /\ e.agent = d.agent /\ e.outs = d.outs /\ e.told = d.told
  /\ \A r \in Sock \ {s} : e.sock[r] = d.sock[r]
  /\ LET k == d.sock[s] n == e.sock[s] IN
       /\ n.st = k.st /\ n.live = k.live /\ n.out = k.out /\ n.cmd = k.cmd /\ n.sent = k.sent \cup {c}
       /\ n.inn = Append(k.inn, c) \/ (n.inn = k.inn /\ n.st # "open")

\* A command that is entered is received by nobody yet, and owed an answer if its
\* connection is open.
LEMMA SendStep ==
  ASSUME NEW l, NEW d, NEW m, NEW e, NEW s \in Sock, NEW c \in Cmd, ConsoleOK(l, d), Entered(l, d, m, e, s, c)
  PROVE  ConsoleOK(m, e)
<1> DEFINE k == d.sock[s]
           n == e.sock[s]
           x == Line("input", c)
<1>1. /\ e \in ConsoleDbs /\ AtWork(e) /\ Blank(e) /\ m = Append(l, x)
      /\ c = d.next /\ e.next = c + 1 /\ e.pend = d.pend /\ e.wait = d.wait /\ e.chunks = d.chunks /\ e.rest = d.rest
      /\ e.agent = d.agent /\ e.outs = d.outs /\ e.told = d.told
      /\ \A r \in Sock \ {s} : e.sock[r] = d.sock[r]
      /\ n.st = k.st /\ n.live = k.live /\ n.out = k.out /\ n.cmd = k.cmd /\ n.sent = k.sent \cup {c}
      /\ n.inn = Append(k.inn, c) \/ (n.inn = k.inn /\ n.st # "open")
  BY DEF Entered
<1>2. /\ l \in Seq(Lines) /\ d \in ConsoleDbs /\ k \in Socks /\ k.inn \in Seq(Cmd) /\ k.out \in Seq(Replies)
  BY DbParts, SockParts DEF ConsoleOK
<1>3. c \in Nat /\ x \in Lines /\ (\A b : x # Line("done", b)) /\ \A b \in Cmd : b \in Nat
  <2>1. c \in Nat /\ x \in Lines /\ \A b \in Cmd : b \in Nat
    BY CmdType
  <2> QED
    BY <2>1 DEF Line
<1> HIDE DEF k, n, x
<1>4. m \in Seq(Lines) /\ Range(m) = Range(l) \cup {x}
  BY <1>1, <1>2, <1>3, Appended
<1>5. New(d, c)
  BY <1>1, <1>3 DEF New
<1>6. \A r \in Sock : e.sock[r].cmd = d.sock[r].cmd /\ e.sock[r].out = d.sock[r].out
  BY <1>1 DEF k, n
<1>7. Waited(e)
  <2>1. {e.sock[r].cmd : r \in Sock} = {d.sock[r].cmd : r \in Sock}
    BY <1>6
  <2> QED
    BY <1>1, <1>6, <2>1 DEF ConsoleOK, Waited
<1>8. \A r \in Sock : c \notin Range(d.sock[r].inn) /\ \A b \in Range(d.sock[r].inn) : b < c /\ b \in Nat
  <2>1. \A r \in Sock : \A b \in Range(d.sock[r].inn) : b < c /\ b \in Nat
    BY <1>1, <1>2, <1>3, DbParts, SockParts, InRange DEF ConsoleOK, Inboxes
  <2>2. ~(c < c)
    BY <1>3
  <2> QED
    BY <2>1, <2>2
<1>9. /\ \A r \in Sock \ {s} : e.sock[r].inn = d.sock[r].inn
      /\ Range(n.inn) = Range(k.inn) \/ Range(n.inn) = Range(k.inn) \cup {c}
      /\ n.st = "open" => c \in Range(n.inn)
      /\ Once(n.inn) /\ Range(k.inn) \subseteq Range(n.inn)
  <2>1. Once(k.inn) /\ c \notin Range(k.inn)
    BY <1>8 DEF ConsoleOK, Inboxes, k
  <2>2. Once(Append(k.inn, c)) /\ Range(Append(k.inn, c)) = Range(k.inn) \cup {c}
    BY <1>2, <2>1, Appended
  <2> QED
    BY <1>1, <2>1, <2>2
<1>10. \A b \in Cmd : (New(e, b) => New(d, b)) /\ (Unrun(e, b) => Unrun(d, b))
  <2>1. \A b \in Cmd : b >= e.next => b >= d.next
    BY <1>1, <1>3
  <2>2. \A b \in Cmd : New(e, b) => New(d, b)
    <3> SUFFICES ASSUME NEW b \in Cmd, NEW r \in Sock, b \in Range(e.sock[r].inn) PROVE New(d, b)
      BY <2>1 DEF New
    <3>1. CASE b = c
      BY <1>5, <3>1
    <3>2. CASE b # c
      <4>1. b \in Range(d.sock[r].inn)
        BY <1>9, <3>2 DEF k, n
      <4> QED
        BY <4>1 DEF New
    <3> QED
      BY <3>1, <3>2
  <2> QED
    BY <1>1, <2>2 DEF Unrun
<1>11. Inboxes(e)
  <2>1. \A b \in Cmd : New(e, b) => b \notin e.wait /\ b # e.agent
    BY <1>1, <1>10 DEF ConsoleOK, Inboxes
  <2>2. \A r \in Sock : \A b \in Range(e.sock[r].inn) : b < e.next
    <3>1. \A b \in Nat : b < c \/ b = c => b < e.next
      BY <1>1, <1>3
    <3> QED
      BY <1>3, <1>8, <1>9, <3>1 DEF k, n
  <2>3. \A r \in Sock : Once(e.sock[r].inn)
    BY <1>9 DEF ConsoleOK, Inboxes, n
  <2>4. \A r, t \in Sock : r # t => Range(e.sock[r].inn) \cap Range(e.sock[t].inn) = {}
    <3>1. \A r, t \in Sock : r # t => Range(d.sock[r].inn) \cap Range(d.sock[t].inn) = {}
      BY DEF ConsoleOK, Inboxes
    <3>2. \A t \in Sock \ {s} : Range(n.inn) \cap Range(e.sock[t].inn) = {}
      BY <1>8, <1>9, <3>1 DEF k
    <3>3. \A r, t \in Sock \ {s} : r # t => Range(e.sock[r].inn) \cap Range(e.sock[t].inn) = {}
      BY <1>9, <3>1
    <3> QED
      BY <3>2, <3>3 DEF n
  <2> QED
    BY <2>1, <2>2, <2>3, <2>4 DEF Inboxes
<1>12. Silent(m, e)
  <2>1. Silent(l, d) /\ e.outs = d.outs
    BY <1>1 DEF ConsoleOK
  <2>2. \A b \in Cmd : \/ e.chunks[b] = <<>>
                       \/ e.chunks[b] = d.chunks[b] /\ (b \in d.wait => b \in e.wait)
                       \/ ~Unrun(d, b) /\ b \in e.wait /\ Range(e.chunks[b]) \subseteq Range(d.chunks[b])
    BY <1>1
  <2>3. \A b \in Cmd : Unrun(d, b) =>
          /\ Line("done", b) \in Range(m) => Line("done", b) \in Range(l)
          /\ \A r \in Sock : Line("done", b) \in Range(e.sock[r].out) => Line("done", b) \in Range(d.sock[r].out)
    BY <1>3, <1>4, <1>6
  <2>4. \A b \in Cmd : Unrun(e, b) => Unrun(d, b)
    BY <1>10
  <2> QED
    BY <2>1, <2>2, <2>3, <2>4, SilentKept, SMTT(60)
<1>13. Owed(e)
  <2>1. ASSUME n.st = "open", NEW b \in n.sent PROVE Answered(n, e, b)
    <3>1. CASE b = c
      BY <1>9, <2>1, <3>1 DEF Answered
    <3>2. CASE b # c
      <4>1. Answered(k, d, b)
        BY <1>1, <2>1, <3>2 DEF ConsoleOK, Owed, k
      <4> QED
        BY <1>1, <1>9, <4>1 DEF Answered
    <3> QED
      BY <3>1, <3>2
  <2>2. Owed(d) /\ d.told \subseteq e.told
    BY <1>1 DEF ConsoleOK
  <2>3. e.sock[s].st = "open" => \A b \in e.sock[s].sent : Answered(e.sock[s], e, b)
    BY <2>1 DEF n
  <2> QED
    BY <1>1, <2>2, <2>3, OwedKept
<1>14. Told(m, e)
  <2> SUFFICES ASSUME NEW b \in e.outs, Line("input", b) \in Range(m)
               PROVE  /\ Ordered(m, b, {})
                      /\ \A r \in Sock : Heard(e.sock[r]) =>
                           /\ Ordered(e.sock[r].out, b, Range(m))
                           /\ e.sock[r].cmd = b => Ordered(e.chunks[b], b, Range(m) \cup Range(e.sock[r].out))
    BY DEF Told
  <2>1. b \in d.outs /\ b \in Cmd
    BY <1>1, DbParts
  <2>2. b # c
    BY <1>5, <2>1 DEF ConsoleOK, Silent, Unrun
  <2>3. Line("input", b) \in Range(l)
    <3>1. Line("input", b) # x
      BY <2>2 DEF Line, x
    <3> QED
      BY <1>4, <3>1
  <2>4. /\ Ordered(l, b, {})
        /\ \A r \in Sock : Heard(d.sock[r]) =>
             /\ Ordered(d.sock[r].out, b, Range(l))
             /\ d.sock[r].cmd = b => Ordered(d.chunks[b], b, Range(l) \cup Range(d.sock[r].out))
    BY <2>1, <2>3 DEF ConsoleOK, Told
  <2>5. Ordered(m, b, {})
    <3>1. x # Line("done", b)
      BY <1>3
    <3>2. Ordered(Append(l, x), b, {})
      BY <1>2, <1>3, <2>4, <3>1, OrderedQueues
    <3> QED
      BY <1>1, <3>2
  <2>6. ASSUME NEW r \in Sock, Heard(e.sock[r])
        PROVE  /\ Ordered(e.sock[r].out, b, Range(m))
               /\ e.sock[r].cmd = b => Ordered(e.chunks[b], b, Range(m) \cup Range(e.sock[r].out))
    <3>1. Heard(d.sock[r])
      BY <1>1, <2>6 DEF Heard, k, n
    <3>2. d.sock[r].out \in Seq(Replies) /\ d.chunks[b] \in Seq(Replies)
      BY <1>2, <2>1, DbParts, SockParts
    <3>3. Ordered(d.sock[r].out, b, Range(m))
      BY <1>4, <2>4, <3>1, <3>2, OrderedQueues
    <3>4. d.sock[r].cmd = b => Ordered(d.chunks[b], b, Range(m) \cup Range(d.sock[r].out))
      <4>1. Range(l) \cup Range(d.sock[r].out) \subseteq Range(m) \cup Range(d.sock[r].out)
        BY <1>4
      <4> QED
        BY <2>4, <3>1, <3>2, <4>1, OrderedQueues
    <3> QED
      BY <1>1, <1>6, <3>3, <3>4
  <2> QED
    BY <2>5, <2>6
<1> QED
  BY SMTT(30), <1>1, <1>4, <1>7, <1>11, <1>12, <1>13, <1>14 DEF ConsoleOK

\* The agent's result of the command c is there.
Resulted(d, e, c, t) ==
  /\ e \in ConsoleDbs /\ c = d.agent /\ e.agent = 0 /\ e.sock = d.sock /\ e.next = d.next /\ e.pend = d.pend
  /\ e.wait = d.wait /\ e.rest = d.rest /\ e.told = d.told
  /\ t \in Seq(Replies) /\ Range(t) \subseteq {Line("output", c), Line("done", c)} /\ (c \notin d.wait => t = <<>>)
  /\ e.chunks = [d.chunks EXCEPT ![c] = t]
  /\ e.outs = d.outs \/ (e.outs = d.outs \cup {c} /\ \A B : Ordered(t, c, B))

\* The result of a command goes to whoever waits for it.
LEMMA ResultStep ==
  ASSUME NEW l, NEW d, NEW e, NEW c \in Cmd, NEW t, ConsoleOK(l, d), Resulted(d, e, c, t)
  PROVE  ConsoleOK(l, e)
<1>1. /\ e \in ConsoleDbs /\ c = d.agent /\ e.agent = 0 /\ e.sock = d.sock /\ e.next = d.next /\ e.pend = d.pend
      /\ e.wait = d.wait /\ e.rest = d.rest /\ e.told = d.told
      /\ Range(t) \subseteq {Line("output", c), Line("done", c)} /\ (c \notin d.wait => t = <<>>)
      /\ e.outs = d.outs \/ (e.outs = d.outs \cup {c} /\ \A B : Ordered(t, c, B))
  BY DEF Resulted
<1>2. \A b \in Cmd : e.chunks[b] = IF b = c THEN t ELSE d.chunks[b]
  <2>1. d.chunks \in [Cmd -> Seq(Replies)] /\ e.chunks = [d.chunks EXCEPT ![c] = t]
    BY DbParts DEF ConsoleOK, Resulted
  <2> QED
    BY <2>1
<1>3. AtWork(e) /\ Blank(e) /\ Owed(e)
  BY <1>1 DEF ConsoleOK, AtWork, Blank, Owed, Answered
<1>4. Unrun(d, c) /\ ~New(d, c) /\ c \notin Range(d.pend)
  BY <1>1 DEF Unrun, ConsoleOK, Inboxes, Waited
<1>5. Waited(e)
  <2>1. \A i \in Range(d.pend) : i # 0
    BY DbParts, InRange, CmdType DEF ConsoleOK
  <2> QED
    BY <1>1, <2>1 DEF ConsoleOK, Waited
<1>6. \A b \in Cmd : (New(e, b) <=> New(d, b)) /\ (Unrun(e, b) => Unrun(d, b) /\ b # c)
  <2>1. \A b \in Cmd : b # 0
    BY CmdType
  <2>2. \A b \in Cmd : New(e, b) <=> New(d, b)
    BY <1>1 DEF New
  <2> QED
    BY <1>1, <1>4, <2>1, <2>2 DEF Unrun
<1>7. Inboxes(e)
  <2>1. \A b \in Cmd : b # 0
    BY CmdType
  <2> QED
    BY <1>1, <1>6, <2>1 DEF ConsoleOK, Inboxes
<1>8. Silent(l, e)
  <2>1. Silent(l, d)
    BY DEF ConsoleOK
  <2>2. \A b \in Cmd : Unrun(e, b) =>
          /\ b \notin e.outs /\ e.chunks[b] = <<>> /\ Line("done", b) \notin Range(l)
          /\ \A r \in Sock : Line("done", b) \notin Range(e.sock[r].out)
    BY <1>1, <1>2, <1>6, <2>1 DEF Silent
  <2>3. \A b \in Cmd : b \notin e.wait => e.chunks[b] = <<>>
    BY <1>1, <1>2, <2>1 DEF Silent
  <2>4. \A b \in Cmd : Range(e.chunks[b]) \subseteq {Line("output", b), Line("done", b)}
    BY <1>1, <1>2, <2>1 DEF Silent
  <2> QED
    BY <2>2, <2>3, <2>4 DEF Silent
<1>9. Told(l, e)
  <2> SUFFICES ASSUME NEW b \in e.outs, Line("input", b) \in Range(l)
               PROVE  /\ Ordered(l, b, {})
                      /\ \A r \in Sock : Heard(e.sock[r]) =>
                           /\ Ordered(e.sock[r].out, b, Range(l))
                           /\ e.sock[r].cmd = b => Ordered(e.chunks[b], b, Range(l) \cup Range(e.sock[r].out))
    BY DEF Told
  <2>0. b \in Cmd /\ l \in Seq(Lines) /\ \A r \in Sock : d.sock[r].out \in Seq(Replies)
    BY <1>1, DbParts, SockParts DEF ConsoleOK
  <2>1. CASE b = c
    <3>1. /\ c \notin d.outs /\ Line("done", c) \notin Range(l)
          /\ \A r \in Sock : Line("done", c) \notin Range(d.sock[r].out)
      BY <1>4 DEF ConsoleOK, Silent
    <3>2. \A i \in 1..Len(l) : l[i] # Line("done", c)
      BY <2>0, <3>1, InRange
    <3>3. \A r \in Sock : \A i \in 1..Len(d.sock[r].out) : d.sock[r].out[i] # Line("done", c)
      BY <2>0, <3>1, InRange
    <3>4. Ordered(l, c, {}) /\ \A r \in Sock : Ordered(d.sock[r].out, c, Range(l))
      BY <3>2, <3>3 DEF Ordered
    <3>5. \A B : Ordered(t, c, B)
      BY <1>1, <2>1, <3>1
    <3> QED
      BY <1>1, <1>2, <2>1, <3>4, <3>5
  <2>2. CASE b # c
    <3>1. b \in d.outs
      BY <1>1, <2>2
    <3>2. /\ Ordered(l, b, {})
          /\ \A r \in Sock : Heard(d.sock[r]) =>
               /\ Ordered(d.sock[r].out, b, Range(l))
               /\ d.sock[r].cmd = b => Ordered(d.chunks[b], b, Range(l) \cup Range(d.sock[r].out))
      BY <3>1 DEF ConsoleOK, Told
    <3> QED
      BY <1>1, <1>2, <2>0, <2>2, <3>2
  <2> QED
    BY <2>1, <2>2
<1> QED
  BY <1>1, <1>3, <1>5, <1>7, <1>8, <1>9 DEF ConsoleOK

\* The console's part of the state is what its type says, and nothing is lost in it.
ConsoleInv == f \in ConsoleFs /\ ConsoleOK(f.lines, db)

\* The socket s is replaced by n.
SetSock(d, e, s, n) == e = [d EXCEPT !.sock[s] = n]

\* One socket of the server's state is replaced.
LEMMA OneSock ==
  ASSUME NEW d \in ConsoleDbs, NEW s \in Sock, NEW n \in Socks, NEW e, SetSock(d, e, s, n)
  PROVE  /\ e \in ConsoleDbs /\ e.sock[s] = n /\ \A r \in Sock \ {s} : e.sock[r] = d.sock[r]
         /\ e.next = d.next /\ e.pend = d.pend /\ e.wait = d.wait /\ e.chunks = d.chunks /\ e.rest = d.rest
         /\ e.agent = d.agent /\ e.outs = d.outs /\ e.told = d.told
BY DEF ConsoleDbs, SetSock

\* One change of a socket after another.
LEMMA SetField ==
  ASSUME NEW d \in ConsoleDbs, NEW s \in Sock, NEW e, NEW n, NEW a, SetSock(d, e, s, n)
  PROVE  /\ SetSock(d, [e EXCEPT !.sock[s].st = a], s, [n EXCEPT !.st = a])
         /\ SetSock(d, [e EXCEPT !.sock[s].live = a], s, [n EXCEPT !.live = a])
         /\ SetSock(d, [e EXCEPT !.sock[s].srv = a], s, [n EXCEPT !.srv = a])
         /\ SetSock(d, [e EXCEPT !.sock[s].cmd = a], s, [n EXCEPT !.cmd = a])
         /\ SetSock(d, [e EXCEPT !.sock[s].inn = a], s, [n EXCEPT !.inn = a])
         /\ SetSock(d, [e EXCEPT !.sock[s].out = a], s, [n EXCEPT !.out = a])
         /\ SetSock(d, [e EXCEPT !.sock[s].sent = a], s, [n EXCEPT !.sent = a])
<1>1. e = [d EXCEPT !.sock[s] = n] /\ e.sock[s] = n
  BY DEF SetSock, ConsoleDbs
<1>2. \A m : [e EXCEPT !.sock[s] = m] = [d EXCEPT !.sock[s] = m]
  BY <1>1 DEF ConsoleDbs
<1> QED
  BY <1>1, <1>2 DEF SetSock

\* No change, and the first one.
LEMMA SetFirst ==
  ASSUME NEW d \in ConsoleDbs, NEW s \in Sock
  PROVE  SetSock(d, d, s, d.sock[s])
BY DEF SetSock, ConsoleDbs

\* What a socket's record alone must satisfy.
SockOK(n) ==
  /\ n \in Socks /\ (n.srv \in {"queued", "wait"}) = (n.cmd # 0)
  /\ n.st \in {"none", "opening"} => n.srv = "none" /\ n.inn = <<>> /\ n.out = <<>> /\ n.sent = {}

\* Every socket of the console satisfies it.
LEMMA SocksOK == \A l, d : ConsoleOK(l, d) => d \in ConsoleDbs /\ \A s \in Sock : SockOK(d.sock[s])
<1> SUFFICES ASSUME NEW l, NEW d, ConsoleOK(l, d), NEW s \in Sock PROVE d \in ConsoleDbs /\ SockOK(d.sock[s])
  BY DEF ConsoleOK
<1>1. d \in ConsoleDbs /\ AtWork(d) /\ Blank(d)
  BY DEF ConsoleOK
<1>2. d.sock[s] \in Socks
  BY <1>1, DbParts
<1> QED
  BY <1>1, <1>2 DEF SockOK, AtWork, Blank

\* The browser changes one socket.
LEMMA BrowserSock ==
  ASSUME NEW l, NEW d, NEW m, NEW e, NEW s \in Sock, NEW n, ConsoleOK(l, d), SockOK(n), SetSock(d, e, s, n),
         m = l \/ m = <<>>,
         LET k == d.sock[s] IN
           /\ n.cmd = k.cmd /\ n.inn = k.inn
           /\ n.out = k.out \/ n.out = <<>>
           /\ n.st = "open" => n.sent = {} \/ (k.st = "open" /\ n.out = k.out /\ n.sent = k.sent)
           /\ Heard(n) => (Heard(k) /\ n.out = k.out) \/ (n.out = <<>> /\ n.cmd = 0)
  PROVE  ConsoleOK(m, e)
<1>1. d \in ConsoleDbs /\ n \in Socks /\ AtWork(d) /\ Blank(d) /\ l \in Seq(Lines) /\ <<>> \in Seq(Lines)
  BY EmptyQueue DEF ConsoleOK, SockOK
<1>2. /\ e \in ConsoleDbs /\ e.sock[s] = n /\ \A r \in Sock \ {s} : e.sock[r] = d.sock[r]
      /\ e.next = d.next /\ e.pend = d.pend /\ e.wait = d.wait /\ e.chunks = d.chunks /\ e.rest = d.rest
      /\ e.agent = d.agent /\ e.outs = d.outs /\ e.told = d.told
  BY <1>1, OneSock
<1>3. AtWork(e) /\ Blank(e)
  <2>1. \A r \in Sock : e.sock[r] = d.sock[r] \/ e.sock[r] = n
    BY <1>2
  <2> QED
    BY <1>1, <2>1 DEF AtWork, Blank, SockOK
<1>4. \A r \in Sock :
        /\ e.sock[r].cmd = d.sock[r].cmd /\ e.sock[r].inn = d.sock[r].inn
        /\ e.sock[r].out = d.sock[r].out \/ e.sock[r].out = <<>>
        /\ e.sock[r].st = "open" => e.sock[r].sent = {} \/ (/\ d.sock[r].st = "open" /\ e.sock[r].out = d.sock[r].out
                                                            /\ e.sock[r].sent = d.sock[r].sent)
        /\ Heard(e.sock[r]) => \/ Heard(d.sock[r]) /\ e.sock[r].out = d.sock[r].out
                               \/ e.sock[r].out = <<>> /\ e.sock[r].cmd = 0
  <2> SUFFICES ASSUME NEW r \in Sock
               PROVE /\ e.sock[r].cmd = d.sock[r].cmd /\ e.sock[r].inn = d.sock[r].inn
                     /\ e.sock[r].out = d.sock[r].out \/ e.sock[r].out = <<>>
                     /\ e.sock[r].st = "open" => e.sock[r].sent = {} \/ (/\ d.sock[r].st = "open" /\ e.sock[r].out = d.sock[r].out
                                                                         /\ e.sock[r].sent = d.sock[r].sent)
                     /\ Heard(e.sock[r]) => \/ Heard(d.sock[r]) /\ e.sock[r].out = d.sock[r].out
                                            \/ e.sock[r].out = <<>> /\ e.sock[r].cmd = 0
    OBVIOUS
  <2>1. CASE r = s
    BY <1>2, <2>1
  <2>2. CASE r # s
    BY <1>2, <2>2
  <2> QED
    BY <2>1, <2>2
<1>5. m \in Seq(Lines)
  BY <1>1
<1> QED
  BY <1>2, <1>3, <1>4, <1>5, BrowserStep

\* The handler of one socket changes it, and tells or drops what it has not received.
LEMMA HandlerSock ==
  ASSUME NEW l, NEW d, NEW e, NEW s \in Sock, NEW n, NEW x, ConsoleOK(l, d), SockOK(n), SetSock(d, e, s, n),
         LET k == d.sock[s] IN
           /\ n.live = k.live /\ n.cmd = k.cmd /\ n.sent = k.sent
           /\ n.out = k.out \/ (x \in Replies /\ n.out = Append(k.out, x))
           /\ Once(n.inn) /\ Range(n.inn) \subseteq Range(k.inn)
           /\ n.st \in {"open", "ending"} => k.st \in {"open", "ending"}
           /\ n.st = "open" => /\ k.st = "open"
                               /\ \A c \in Range(k.inn) : c \in Range(n.inn) \/ Line("error", c) \in Range(n.out),
         \A c : x # Line("done", c)
  PROVE  ConsoleOK(l, e)
<1>1. d \in ConsoleDbs /\ n \in Socks /\ AtWork(d) /\ Blank(d)
  BY DEF ConsoleOK, SockOK
<1>2. /\ e \in ConsoleDbs /\ e.sock[s] = n /\ \A r \in Sock \ {s} : e.sock[r] = d.sock[r]
      /\ e.next = d.next /\ e.pend = d.pend /\ e.wait = d.wait /\ e.chunks = d.chunks /\ e.rest = d.rest
      /\ e.agent = d.agent /\ e.outs = d.outs /\ e.told = d.told
  BY <1>1, OneSock
<1>3. AtWork(e) /\ Blank(e)
  <2>1. \A r \in Sock : e.sock[r] = d.sock[r] \/ e.sock[r] = n
    BY <1>2
  <2> QED
    BY <1>1, <2>1 DEF AtWork, Blank, SockOK
<1>4. OnlySock(d, e, s)
  BY <1>2, <1>3 DEF OnlySock
<1> QED
  BY ZenonT(60), <1>2, <1>4, HandlerStep

\* A new connection is opened.
LEMMA ConnectKeeps == ConsoleInv /\ connect => ConsoleInv'
<1> SUFFICES ASSUME ConsoleInv, connect PROVE ConsoleInv'
  OBVIOUS
<1>1. PICK s \in Sock : /\ db.sock[s].st = "none"
                        /\ f' = [f EXCEPT !.connecting = TRUE, !.ref = s]
                        /\ db' = [db EXCEPT !.sock[s].st = "opening", !.sock[s].live = TRUE]
  BY DEF connect, Steps
<1>2. f \in ConsoleFs /\ ConsoleOK(f.lines, db)
  BY DEF ConsoleInv
<1>3. f' \in ConsoleFs /\ f'.lines = f.lines
  BY <1>1, <1>2 DEF ConsoleFs
<1> DEFINE k == db.sock[s]
           n == [k EXCEPT !.st = "opening", !.live = TRUE]
<1>4. SockOK(k)
  BY <1>2, SocksOK
<1>5. SockOK(n) /\ SetSock(db, db', s, n)
  <2>1. k \in Socks
    BY <1>4 DEF SockOK
  <2>2. SockOK(n)
    BY <1>1, <1>4, <2>1 DEF SockOK, Socks
  <2> QED
    BY ZenonT(60), <1>1, <2>1, <2>2 DEF Socks, SetSock
<1>6. n.cmd = k.cmd /\ n.inn = k.inn /\ n.out = k.out /\ n.st # "open" /\ ~Heard(n)
  BY <1>4 DEF SockOK, Socks, Heard
<1> HIDE DEF n, k
<1>7. ConsoleOK(f'.lines, db')
  BY <1>2, <1>3, <1>5, <1>6, BrowserSock DEF k
<1> QED
  BY <1>3, <1>7 DEF ConsoleInv

\* The connection is open on both sides.
LEMMA OpensKeeps == \A s \in Sock : ConsoleInv /\ Opens(s) => ConsoleInv'
<1> SUFFICES ASSUME NEW s \in Sock, ConsoleInv, Opens(s) PROVE ConsoleInv'
  OBVIOUS
<1> DEFINE k == db.sock[s]
           n == [k EXCEPT !.st = "open", !.srv = "recv"]
<1>1. /\ k.st = "opening" /\ f' = IF k.live THEN [f EXCEPT !.connected = TRUE, !.connecting = FALSE] ELSE f
      /\ db' = [db EXCEPT !.sock[s].st = "open", !.sock[s].srv = "recv"]
  BY DEF Opens, Steps
<1>2. f \in ConsoleFs /\ ConsoleOK(f.lines, db)
  BY DEF ConsoleInv
<1>3. f' \in ConsoleFs /\ f'.lines = f.lines
  BY <1>1, <1>2 DEF ConsoleFs
<1>4. SockOK(k) /\ k \in Socks
  BY <1>2, SocksOK DEF SockOK
<1>5. SockOK(n)
  <2>1. k.srv = "none" /\ k.cmd = 0
    BY <1>1, <1>4 DEF SockOK
  <2>2. n \in Socks /\ n.srv = "recv" /\ n.cmd = 0 /\ n.st = "open"
    BY <1>4, <2>1 DEF Socks
  <2> HIDE DEF n
  <2> QED
    BY <2>2 DEF SockOK
<1>6. SetSock(db, db', s, n)
  BY ZenonT(60), <1>1, <1>4 DEF Socks, SetSock
<1>7. n.cmd = k.cmd /\ n.inn = k.inn /\ n.out = k.out /\ n.sent = {} /\ n.out = <<>> /\ n.cmd = 0
  BY <1>1, <1>4 DEF SockOK, Socks
<1> HIDE DEF n, k
<1>8. ConsoleOK(f'.lines, db')
  BY <1>2, <1>3, <1>5, <1>6, <1>7, BrowserSock DEF k
<1> QED
  BY <1>3, <1>8 DEF ConsoleInv

\* A connection is refused, breaks, or is closed by the page.
LEMMA LostKeeps ==
  ASSUME NEW s \in Sock, NEW st \in {"lost", "shut"}, ConsoleInv, db.sock[s].st # "none",
         SetSock(db, db', s, [db.sock[s] EXCEPT !.st = st]), f' \in ConsoleFs, f'.lines = f.lines
  PROVE  ConsoleInv'
<1> DEFINE k == db.sock[s]
           n == [k EXCEPT !.st = st]
<1>2. f \in ConsoleFs /\ ConsoleOK(f.lines, db)
  BY DEF ConsoleInv
<1>4. SockOK(k) /\ k \in Socks
  BY <1>2, SocksOK DEF SockOK
<1>5. SockOK(n)
  BY <1>4 DEF SockOK, Socks
<1>6. n.cmd = k.cmd /\ n.inn = k.inn /\ n.out = k.out /\ n.st # "open" /\ ~Heard(n)
  BY <1>4 DEF SockOK, Socks, Heard
<1>7. SetSock(db, db', s, n)
  OBVIOUS
<1> HIDE DEF n, k
<1>8. ConsoleOK(f'.lines, db')
  BY <1>2, <1>5, <1>6, <1>7, BrowserSock DEF k
<1> QED
  BY <1>8 DEF ConsoleInv

\* Refused and Drops are such steps.
LEMMA DropsKeeps == \A s \in Sock : ConsoleInv /\ (Refused(s) \/ Drops(s)) => ConsoleInv'
<1> SUFFICES ASSUME NEW s \in Sock, ConsoleInv, Refused(s) \/ Drops(s) PROVE ConsoleInv'
  OBVIOUS
<1>1. f' = f /\ db' = [db EXCEPT !.sock[s].st = "lost"] /\ db.sock[s].st # "none"
  BY DEF Refused, Drops, Happens
<1>2. f \in ConsoleFs /\ ConsoleOK(f.lines, db)
  BY DEF ConsoleInv
<1>3. db.sock[s] \in Socks
  BY <1>2, SocksOK DEF SockOK
<1>4. SetSock(db, db', s, [db.sock[s] EXCEPT !.st = "lost"])
  BY <1>1, <1>3 DEF Socks, SetSock
<1> QED
  BY <1>1, <1>2, <1>4, LostKeeps

\* disconnect closes the socket of the ref.
LEMMA DisconnectKeeps == ConsoleInv /\ disconnect => ConsoleInv'
<1> SUFFICES ASSUME ConsoleInv, disconnect PROVE ConsoleInv'
  OBVIOUS
<1>1. f' = [f EXCEPT !.connected = FALSE, !.ref = 0] /\ db' = Closed(db, f.ref)
  BY DEF disconnect, Happens
<1>2. f \in ConsoleFs /\ ConsoleOK(f.lines, db)
  BY DEF ConsoleInv
<1>3. f' \in ConsoleFs /\ f'.lines = f.lines /\ f.ref \in {0} \cup Sock
  BY <1>1, <1>2 DEF ConsoleFs
<1>4. CASE db' = db
  BY <1>2, <1>3, <1>4 DEF ConsoleInv
<1>5. CASE f.ref \in Sock /\ db.sock[f.ref].st \in {"opening", "open", "ending"} /\ db' = [db EXCEPT !.sock[f.ref].st = "shut"]
  <2>1. db.sock[f.ref] \in Socks
    BY <1>2, <1>5, SocksOK DEF SockOK
  <2>2. SetSock(db, db', f.ref, [db.sock[f.ref] EXCEPT !.st = "shut"])
    BY <1>5, <2>1 DEF Socks, SetSock
  <2>3. db.sock[f.ref].st # "none"
    BY <1>5
  <2> QED
    BY <1>3, <1>5, <2>2, <2>3, LostKeeps
<1> QED
  BY <1>1, <1>3, <1>4, <1>5 DEF Closed

\* A connection is gone: what was on its way is lost with it.
LEMMA OnCloseKeeps == \A s \in Sock : ConsoleInv /\ OnClose(s) => ConsoleInv'
<1> SUFFICES ASSUME NEW s \in Sock, ConsoleInv, OnClose(s) PROVE ConsoleInv'
  OBVIOUS
<1> DEFINE k == db.sock[s]
           n == [k EXCEPT !.st = "gone", !.out = <<>>, !.sent = {}, !.live = FALSE]
<1>1. /\ f' = IF k.live THEN [f EXCEPT !.connected = FALSE, !.connecting = FALSE, !.ref = 0] ELSE f
      /\ db' = [db EXCEPT !.sock[s].st = "gone", !.sock[s].out = <<>>, !.sock[s].sent = {}, !.sock[s].live = FALSE]
  BY DEF OnClose, Steps
<1>2. f \in ConsoleFs /\ ConsoleOK(f.lines, db)
  BY DEF ConsoleInv
<1>3. f' \in ConsoleFs /\ f'.lines = f.lines
  BY <1>1, <1>2 DEF ConsoleFs
<1>4. SockOK(k) /\ k \in Socks
  BY <1>2, SocksOK DEF SockOK
<1>5. SockOK(n)
  BY <1>1, <1>4, EmptyQueue DEF SockOK, Socks
<1>6. SetSock(db, db', s, n)
  <2> DEFINE k1 == [k EXCEPT !.st = "gone"]
             k2 == [k1 EXCEPT !.out = <<>>]
             k3 == [k2 EXCEPT !.sent = {}]
             d1 == [db EXCEPT !.sock[s].st = "gone"]
             d2 == [d1 EXCEPT !.sock[s].out = <<>>]
             d3 == [d2 EXCEPT !.sock[s].sent = {}]
  <2>1. n = [k3 EXCEPT !.live = FALSE] /\ db' = [d3 EXCEPT !.sock[s].live = FALSE]
    BY <1>1
  <2>2. db \in ConsoleDbs
    BY <1>2 DEF ConsoleOK
  <2>3. SetSock(db, db, s, k)
    BY <2>2, SetFirst
  <2> HIDE DEF k
  <2>4. SetSock(db, d1, s, k1)
    BY <2>2, <2>3, SetField
  <2> HIDE DEF d1, k1
  <2>5. SetSock(db, d2, s, k2)
    BY <2>2, <2>4, SetField
  <2> HIDE DEF d2, k2
  <2>6. SetSock(db, d3, s, k3)
    BY <2>2, <2>5, SetField
  <2> HIDE DEF d3, k3, n
  <2> QED
    BY <2>1, <2>2, <2>6, SetField
<1>7. n.cmd = k.cmd /\ n.inn = k.inn /\ n.out = <<>> /\ n.st # "open" /\ ~Heard(n)
  BY <1>1, <1>4 DEF SockOK, Socks, Heard
<1> HIDE DEF n, k
<1>8. ConsoleOK(f'.lines, db')
  BY <1>2, <1>3, <1>5, <1>6, <1>7, BrowserSock DEF k
<1> QED
  BY <1>3, <1>8 DEF ConsoleInv

\* The terminal is cleared.
LEMMA ClearKeeps == ConsoleInv /\ clearLines => ConsoleInv'
<1> SUFFICES ASSUME ConsoleInv, clearLines PROVE ConsoleInv'
  OBVIOUS
<1>1. f' = [f EXCEPT !.lines = <<>>] /\ db' = db
  BY DEF clearLines, Happens
<1>2. f \in ConsoleFs /\ ConsoleOK(f.lines, db) /\ <<>> \in Seq(Lines)
  BY EmptyQueue DEF ConsoleInv
<1>3. f' \in ConsoleFs /\ f'.lines = <<>>
  BY <1>1, <1>2 DEF ConsoleFs
<1>4. AtWork(db) /\ Blank(db) /\ db \in ConsoleDbs /\ \A s \in Sock : SockOK(db.sock[s])
  BY <1>2, SocksOK DEF ConsoleOK
<1>5. ConsoleOK(<<>>, db)
  BY <1>2, <1>4, BrowserStep
<1> QED
  BY <1>1, <1>3, <1>5 DEF ConsoleInv

\* No socket is heard any more, and the terminal is empty.
LEMMA LeaveStep ==
  ASSUME NEW l, NEW d, NEW e, ConsoleOK(l, d), e \in ConsoleDbs, AtWork(e), Blank(e),
         /\ e.next = d.next /\ e.pend = d.pend /\ e.wait = d.wait /\ e.chunks = d.chunks /\ e.rest = d.rest
         /\ e.agent = d.agent /\ e.outs = d.outs /\ e.told = d.told,
         \A s \in Sock :
           /\ e.sock[s].cmd = d.sock[s].cmd /\ e.sock[s].inn = d.sock[s].inn
           /\ e.sock[s].out = d.sock[s].out /\ e.sock[s].sent = d.sock[s].sent
           /\ e.sock[s].st = "open" => d.sock[s].st = "open"
           /\ ~Heard(e.sock[s])
  PROVE  ConsoleOK(<<>>, e)
<1>1. <<>> \in Seq(Lines)
  BY EmptyQueue
<1> DEFINE m == <<>>
<1>2. m \in Seq(Lines) /\ (m = l \/ m = <<>>)
  BY <1>1
<1> HIDE DEF m
<1>3. \A s \in Sock :
        /\ e.sock[s].cmd = d.sock[s].cmd /\ e.sock[s].inn = d.sock[s].inn
        /\ e.sock[s].out = d.sock[s].out \/ e.sock[s].out = <<>>
        /\ e.sock[s].st = "open" => e.sock[s].sent = {} \/ (/\ d.sock[s].st = "open" /\ e.sock[s].out = d.sock[s].out
                                                            /\ e.sock[s].sent = d.sock[s].sent)
        /\ Heard(e.sock[s]) => \/ Heard(d.sock[s]) /\ e.sock[s].out = d.sock[s].out
                               \/ e.sock[s].out = <<>> /\ e.sock[s].cmd = 0
  OBVIOUS
<1>4. ConsoleOK(m, e)
  BY <1>2, <1>3, BrowserStep
<1> QED
  BY <1>4 DEF m

\* A socket that the page closes.
Shut(k) == [k EXCEPT !.st = "shut"]

\* Leaving the page: the socket of the ref is closed, and no socket is heard.
LEMMA ConsoleLeaveKeeps == ConsoleInv /\ ConsoleLeave => ConsoleInv'
<1> SUFFICES ASSUME ConsoleInv, ConsoleLeave PROVE ConsoleInv'
  OBVIOUS
<1> DEFINE d == Closed(db, f.ref)
<1>1. f' = ConsoleF /\ db' = [d EXCEPT !.sock = [s \in Sock |-> [@[s] EXCEPT !.live = FALSE]]]
  BY DEF ConsoleLeave
<1>2. f \in ConsoleFs /\ ConsoleOK(f.lines, db) /\ <<>> \in Seq(Lines) /\ db \in ConsoleDbs /\ \A s \in Sock : SockOK(db.sock[s])
  BY EmptyQueue, SocksOK DEF ConsoleInv
<1>3. f' \in ConsoleFs /\ f'.lines = <<>>
  BY <1>1, <1>2 DEF ConsoleFs, ConsoleF
<1>4. \/ d = db
      \/ /\ f.ref \in Sock /\ db.sock[f.ref].st \in {"opening", "open", "ending"}
         /\ d = [db EXCEPT !.sock[f.ref].st = "shut"]
  BY <1>2 DEF Closed, ConsoleFs
<1>5. /\ d \in ConsoleDbs
      /\ d.next = db.next /\ d.pend = db.pend /\ d.wait = db.wait /\ d.chunks = db.chunks /\ d.rest = db.rest
      /\ d.agent = db.agent /\ d.outs = db.outs /\ d.told = db.told
      /\ \A s \in Sock : d.sock[s] = db.sock[s] \/ (db.sock[s].st # "none" /\ d.sock[s] = Shut(db.sock[s]))
  <2>1. CASE d = db
    BY <1>2, <2>1
  <2>2. CASE /\ f.ref \in Sock /\ db.sock[f.ref].st \in {"opening", "open", "ending"}
             /\ d = [db EXCEPT !.sock[f.ref].st = "shut"]
    <3> DEFINE k == db.sock[f.ref]
               n == [k EXCEPT !.st = "shut"]
    <3>1. k \in Socks
      BY <1>2, <2>2 DEF SockOK
    <3>2. n \in Socks
      BY <3>1 DEF Socks
    <3>3. SetSock(db, d, f.ref, n)
      BY <2>2, <3>1 DEF SetSock, Socks
    <3> HIDE DEF d, n
    <3>4. /\ d \in ConsoleDbs /\ d.sock[f.ref] = n /\ \A r \in Sock \ {f.ref} : d.sock[r] = db.sock[r]
          /\ d.next = db.next /\ d.pend = db.pend /\ d.wait = db.wait /\ d.chunks = db.chunks /\ d.rest = db.rest
          /\ d.agent = db.agent /\ d.outs = db.outs /\ d.told = db.told
      <4>1. f.ref \in Sock /\ db \in ConsoleDbs
        BY <1>2, <2>2
      <4> QED
        BY <3>2, <3>3, <4>1, OneSock
    <3>5. k.st # "none" /\ n = Shut(k)
      BY <2>2 DEF n, Shut
    <3>6. \A s \in Sock : d.sock[s] = db.sock[s] \/ (db.sock[s].st # "none" /\ d.sock[s] = Shut(db.sock[s]))
      <4>1. d.sock[f.ref] = Shut(db.sock[f.ref]) /\ db.sock[f.ref].st # "none"
        BY <3>4, <3>5
      <4> QED
        BY <3>4, <4>1
    <3> QED
      BY <3>4, <3>6
  <2> QED
    BY <1>4, <2>1, <2>2
<1> HIDE DEF d
<1>6. /\ db' \in ConsoleDbs
      /\ db'.next = d.next /\ db'.pend = d.pend /\ db'.wait = d.wait /\ db'.chunks = d.chunks /\ db'.rest = d.rest
      /\ db'.agent = d.agent /\ db'.outs = d.outs /\ db'.told = d.told
      /\ \A s \in Sock : db'.sock[s] = [d.sock[s] EXCEPT !.live = FALSE]
  <2>1. \A s \in Sock : [d.sock[s] EXCEPT !.live = FALSE] \in Socks
    <3>1. \A s \in Sock : d.sock[s] \in Socks
      BY <1>5, DbParts
    <3> QED
      BY <3>1 DEF Socks
  <2>2. db'.sock = [s \in Sock |-> [d.sock[s] EXCEPT !.live = FALSE]]
    BY <1>1, <1>5 DEF ConsoleDbs
  <2>3. db'.sock \in [Sock -> Socks]
    BY <2>1, <2>2
  <2> QED
    BY <1>1, <1>5, <2>2, <2>3 DEF ConsoleDbs
<1>7. ASSUME NEW s \in Sock
      PROVE  LET k == db.sock[s] n == db'.sock[s] IN
             /\ SockOK(n) /\ n.cmd = k.cmd /\ n.inn = k.inn /\ n.out = k.out /\ n.sent = k.sent
             /\ n.st = "open" => k.st = "open"
             /\ ~Heard(n)
  <2> DEFINE k == db.sock[s]
             n == db'.sock[s]
  <2>1. SockOK(k) /\ k \in Socks
    BY <1>2 DEF SockOK
  <2>2. n = [k EXCEPT !.live = FALSE] \/ (k.st # "none" /\ n = [k EXCEPT !.st = "shut", !.live = FALSE])
    <3>1. CASE d.sock[s] = k
      BY <1>6, <3>1
    <3>2. CASE k.st # "none" /\ d.sock[s] = Shut(k)
      BY <1>6, <3>2 DEF Shut
    <3> QED
      BY <1>5, <3>1, <3>2
  <2> HIDE DEF k, n
  <2>3. SockOK(n)
    BY <2>1, <2>2 DEF SockOK, Socks
  <2>4. n.cmd = k.cmd /\ n.inn = k.inn /\ n.out = k.out /\ n.sent = k.sent /\ (n.st = "open" => k.st = "open") /\ ~Heard(n)
    BY <2>1, <2>2 DEF Socks, Heard
  <2> QED
    BY <2>3, <2>4 DEF k, n
<1>8. AtWork(db') /\ Blank(db')
  BY <1>7 DEF SockOK, AtWork, Blank
<1>9. ConsoleOK(<<>>, db')
  <2>1. /\ db'.next = db.next /\ db'.pend = db.pend /\ db'.wait = db.wait /\ db'.chunks = db.chunks /\ db'.rest = db.rest
        /\ db'.agent = db.agent /\ db'.outs = db.outs /\ db'.told = db.told
    BY <1>5, <1>6
  <2>2. db' \in ConsoleDbs
    BY <1>6
  <2>3. \A s \in Sock :
          /\ db'.sock[s].cmd = db.sock[s].cmd /\ db'.sock[s].inn = db.sock[s].inn
          /\ db'.sock[s].out = db.sock[s].out /\ db'.sock[s].sent = db.sock[s].sent
          /\ db'.sock[s].st = "open" => db.sock[s].st = "open"
          /\ ~Heard(db'.sock[s])
    BY <1>7
  <2>4. ConsoleOK(f.lines, db)
    BY <1>2
  <2> QED
    BY <1>8, <2>1, <2>2, <2>3, <2>4, LeaveStep
<1> QED
  BY <1>3, <1>9 DEF ConsoleInv

\* A message arrives and, when the page is there, is shown.
LEMMA OnMessageKeeps == \A s \in Sock : ConsoleInv /\ OnMessage(s) => ConsoleInv'
<1> SUFFICES ASSUME NEW s \in Sock, ConsoleInv, OnMessage(s) PROVE ConsoleInv'
  OBVIOUS
<1> DEFINE k == db.sock[s]
           x == Head(k.out)
           n == [k EXCEPT !.out = Tail(@)]
           w == IF x[1] \in {"done", "error"} THEN db.told \cup {x[2]} ELSE db.told
<1>1. /\ k.st \in {"open", "ending"} /\ k.out # <<>>
      /\ f' = IF k.live THEN [f EXCEPT !.lines = Append(@, x)] ELSE f
      /\ db' = [db EXCEPT !.sock[s].out = Tail(@), !.told = w]
  BY DEF OnMessage, Steps, Says
<1>2. f \in ConsoleFs /\ ConsoleOK(f.lines, db) /\ f.lines \in Seq(Lines) /\ db \in ConsoleDbs
  BY DEF ConsoleInv, ConsoleOK
<1>3. SockOK(k) /\ k \in Socks /\ k.out \in Seq(Replies)
  BY <1>2, SocksOK, SockParts DEF SockOK
<1>4. x \in Replies /\ Tail(k.out) \in Seq(Replies)
  BY <1>1, <1>3, Taken
<1>5. x \in Lines /\ Append(f.lines, x) \in Seq(Lines) /\ x[1] \in {"queued", "output", "done", "error"} /\ x[2] \in Cmd
  BY <1>2, <1>4, Appended, CmdType DEF Replies
<1>6. f' \in ConsoleFs /\ f'.lines = IF k.live THEN Append(f.lines, x) ELSE f.lines
  <2> HIDE DEF x, k
  <2> QED
    BY <1>1, <1>2, <1>5 DEF ConsoleFs
<1>7. w \subseteq Cmd /\ db.told \subseteq w /\ \A c : x = Line("done", c) \/ x = Line("error", c) => c \in w
  <2>1. db.told \subseteq Cmd
    BY <1>2, DbParts
  <2>2. \A c : x = Line("done", c) => x[1] = "done" /\ x[2] = c
    BY DEF Line
  <2>3. \A c : x = Line("error", c) => x[1] = "error" /\ x[2] = c
    BY DEF Line
  <2> HIDE DEF x
  <2> QED
    BY <1>5, <2>1, <2>2, <2>3
<1>8. n \in Socks /\ n.st = k.st /\ n.live = k.live /\ n.cmd = k.cmd /\ n.inn = k.inn /\ n.sent = k.sent /\ n.srv = k.srv
      /\ n.out = Tail(k.out)
  BY <1>3, <1>4 DEF Socks
<1>9. db' = [db EXCEPT !.sock[s] = n, !.told = w]
  BY <1>1, <1>3 DEF Socks
<1> HIDE DEF n, w, k, x
<1>10. /\ db' \in ConsoleDbs /\ db'.sock[s] = n /\ \A r \in Sock \ {s} : db'.sock[r] = db.sock[r]
       /\ db'.next = db.next /\ db'.pend = db.pend /\ db'.wait = db.wait /\ db'.chunks = db.chunks /\ db'.rest = db.rest
       /\ db'.agent = db.agent /\ db'.outs = db.outs /\ db'.told = w
  BY <1>2, <1>7, <1>8, <1>9 DEF ConsoleDbs
<1>11. OnlySock(db, db', s)
  <2>1. AtWork(db) /\ Blank(db)
    BY <1>2 DEF ConsoleOK
  <2>2. AtWork(db')
    BY <1>8, <1>10, <2>1 DEF AtWork, k
  <2>3. Blank(db')
    BY <1>1, <1>8, <1>10, <2>1 DEF Blank, k
  <2> QED
    BY <1>10, <2>2, <2>3 DEF OnlySock
<1>12. ConsoleOK(f'.lines, db')
  <2> DEFINE l == f.lines
             m == f'.lines
  <2>1. ConsoleOK(l, db) /\ m = IF db.sock[s].live THEN Append(l, Head(db.sock[s].out)) ELSE l
    BY <1>2, <1>6 DEF k, x
  <2> HIDE DEF l, m
  <2>2. db.sock[s].out # <<>> /\ db.sock[s].st \in {"open", "ending"}
    BY <1>1 DEF k
  <2>3. /\ db'.sock[s].st = db.sock[s].st /\ db'.sock[s].live = db.sock[s].live /\ db'.sock[s].cmd = db.sock[s].cmd
        /\ db'.sock[s].inn = db.sock[s].inn /\ db'.sock[s].sent = db.sock[s].sent /\ db'.sock[s].out = Tail(db.sock[s].out)
    BY <1>8, <1>10 DEF k
  <2>4. /\ db.told \subseteq db'.told
        /\ \A c : Head(db.sock[s].out) = Line("done", c) \/ Head(db.sock[s].out) = Line("error", c) => c \in db'.told
    BY <1>7, <1>10 DEF k, x
  <2>5. ConsoleOK(m, db')
    BY <1>11, <2>1, <2>2, <2>3, <2>4, MessageStep
  <2> QED
    BY <2>5 DEF m
<1> QED
  BY <1>6, <1>12 DEF ConsoleInv

\* The last of two changes of a socket counts.
LEMMA SetTwice ==
  ASSUME NEW d \in ConsoleDbs, NEW s \in Sock, NEW e, NEW g, NEW n, NEW m, SetSock(d, e, s, n), SetSock(e, g, s, m)
  PROVE  SetSock(d, g, s, m)
BY DEF SetSock, ConsoleDbs

\* The message of a handler, for a socket that may be gone.
WithOut(k, s, x) == [k EXCEPT !.out = IF Reached(s) THEN Append(k.out, x) ELSE k.out]

\* Sending it changes that socket's record only (Out in analyst_ws).
LEMMA OutSock ==
  ASSUME NEW d \in ConsoleDbs, NEW s \in Sock, NEW x
  PROVE  SetSock(d, Out(d, s, x), s, WithOut(d.sock[s], s, x))
<1>1. d.sock[s] \in Socks
  BY DbParts
<1>2. CASE Reached(s)
  BY <1>1, <1>2 DEF Out, SetSock, WithOut
<1>3. CASE ~Reached(s)
  <2>1. WithOut(d.sock[s], s, x) = d.sock[s]
    BY <1>1, <1>3 DEF WithOut, Socks
  <2>2. d = [d EXCEPT !.sock[s] = d.sock[s]]
    BY <1>1 DEF ConsoleDbs
  <2> QED
    BY <1>3, <2>1, <2>2 DEF Out, SetSock
<1> QED
  BY <1>2, <1>3

\* A handler that is not at work on a command.
WithIdle(k, st) == [k EXCEPT !.srv = st, !.cmd = 0, !.inn = IF st = "end" THEN <<>> ELSE k.inn]

\* Going idle changes that socket's record only.
LEMMA IdleSock ==
  ASSUME NEW d \in ConsoleDbs, NEW s \in Sock, NEW st
  PROVE  SetSock(d, Idle(d, s, st), s, WithIdle(d.sock[s], st))
<1>1. d.sock[s] \in Socks /\ d.sock \in [Sock -> Socks]
  BY DbParts
<1> QED
  BY <1>1 DEF Idle, SetSock, WithIdle, Socks

\* The handler begins to wait for the result, and says so.
LEMMA TellsKeeps == \A s \in Sock : ConsoleInv /\ Tells(s) => ConsoleInv'
<1> SUFFICES ASSUME NEW s \in Sock, ConsoleInv, Tells(s) PROVE ConsoleInv'
  OBVIOUS
<1> DEFINE k == db.sock[s]
           x == Line("queued", k.cmd)
           o == IF Reached(s) THEN Append(k.out, x) ELSE k.out
           w == WithOut(k, s, x)
           u == Out(db, s, x)
           n == [w EXCEPT !.srv = "wait"]
<1>1. /\ k.srv = "queued" /\ f' = f /\ db' = [Out(db, s, x) EXCEPT !.sock[s].srv = "wait"]
  BY DEF Tells, Steps
<1>2. f \in ConsoleFs /\ ConsoleOK(f.lines, db) /\ db \in ConsoleDbs
  BY DEF ConsoleInv, ConsoleOK
<1>3. SockOK(k) /\ k \in Socks /\ k.out \in Seq(Replies) /\ k.inn \in Seq(Cmd) /\ k.cmd \in Cmd
  BY <1>1, <1>2, SocksOK, SockParts DEF SockOK
<1>4. x \in Replies /\ \A c : x # Line("done", c)
  BY <1>3 DEF Line, Replies
<1>5. o \in Seq(Replies)
  BY <1>3, <1>4, Appended
<1>6. /\ w \in Socks /\ w.srv = k.srv /\ w.cmd = k.cmd /\ w.st = k.st /\ w.live = k.live /\ w.sent = k.sent
      /\ w.inn = k.inn /\ w.out = o
  <2>1. w = [k EXCEPT !.out = o]
    BY DEF WithOut
  <2> HIDE DEF o, w
  <2> QED
    BY <1>3, <1>5, <2>1 DEF Socks
<1>7. /\ n \in Socks /\ n.srv = "wait" /\ n.cmd = k.cmd /\ n.st = k.st /\ n.live = k.live /\ n.sent = k.sent
      /\ n.inn = k.inn /\ n.out = o /\ SetSock(db, db', s, n)
  <2>1. SetSock(db, u, s, w)
    BY <1>2, OutSock
  <2> HIDE DEF o, w, u
  <2>2. u \in ConsoleDbs /\ u.sock[s] = w
    BY <1>2, <1>6, <2>1, OneSock
  <2>3. SetSock(u, db', s, n)
    BY <1>1, <1>6, <2>2 DEF SetSock, Socks, u
  <2>4. SetSock(db, db', s, n)
    BY <1>2, <2>1, <2>3, SetTwice
  <2> QED
    BY <1>6, <2>4 DEF Socks
<1>8. o = k.out \/ (x \in Replies /\ o = Append(k.out, x))
  BY <1>4
<1> HIDE DEF n, o, x, k
<1>9. SockOK(n)
  BY <1>1, <1>3, <1>7 DEF SockOK
<1>10. Once(k.inn)
  BY <1>2 DEF ConsoleOK, Inboxes, k
<1>11. ConsoleOK(f.lines, db')
  BY <1>2, <1>4, <1>7, <1>8, <1>9, <1>10, HandlerSock DEF k
<1> QED
  BY <1>1, <1>2, <1>11 DEF ConsoleInv

\* A command is refused, with a message or with the end of the connection.
LEMMA RefusesKeeps == \A s \in Sock : ConsoleInv /\ Refuses(s) => ConsoleInv'
<1> SUFFICES ASSUME NEW s \in Sock, ConsoleInv, Refuses(s) PROVE ConsoleInv'
  OBVIOUS
<1> DEFINE k == db.sock[s]
           c == Head(k.inn)
           d == [db EXCEPT !.sock[s].inn = Tail(@)]
           x == Line("error", c)
<1>1. /\ k.srv = "recv" /\ k.inn # <<>> /\ f' = f
      /\ \/ db' = Out(d, s, x)
         \/ db' = [Idle(d, s, "end") EXCEPT !.sock[s].st = IF Reached(s) THEN "ending" ELSE @]
  BY Zenon DEF Refuses, Happens
<1>2. f \in ConsoleFs /\ ConsoleOK(f.lines, db) /\ db \in ConsoleDbs
  BY DEF ConsoleInv, ConsoleOK
<1>3. SockOK(k) /\ k \in Socks /\ k.out \in Seq(Replies) /\ k.inn \in Seq(Cmd) /\ k.cmd = 0
  BY <1>1, <1>2, SocksOK, SockParts DEF SockOK
<1>4. /\ c \in Cmd /\ Tail(k.inn) \in Seq(Cmd) /\ Range(k.inn) = Range(Tail(k.inn)) \cup {c} /\ Once(Tail(k.inn))
  <2>1. Once(k.inn)
    BY <1>2 DEF ConsoleOK, Inboxes
  <2>2. k.inn \in Seq(Cmd) /\ k.inn # <<>>
    BY Zenon, <1>1, <1>3
  <2> HIDE DEF k
  <2> QED
    BY <2>1, <2>2, Taken
<1>5. x \in Replies /\ \A b : x # Line("done", b)
  BY <1>4 DEF Line, Replies
<1>6. k.st \notin {"none", "opening"}
  BY ZenonT(60), <1>1, <1>3 DEF SockOK
<1>7. CASE db' = Out(d, s, x)
  <2> DEFINE o == IF Reached(s) THEN Append(k.out, x) ELSE k.out
             w == [k EXCEPT !.inn = Tail(k.inn)]
             n == [w EXCEPT !.out = o]
  <2>1. o \in Seq(Replies) /\ (o = k.out \/ o = Append(k.out, x)) /\ (k.st = "open" => x \in Range(o))
    <3>1. k.st = "open" => Reached(s)
      BY DEF Reached
    <3>2. k.out \in Seq(Replies) /\ x \in Replies
      BY <1>3, <1>5
    <3> HIDE DEF k, x
    <3>3. Append(k.out, x) \in Seq(Replies) /\ x \in Range(Append(k.out, x))
      BY <3>2, Appended
    <3> QED
      BY <3>1, <3>2, <3>3
  <2>2. SetSock(db, db', s, n)
    <3>1. w \in Socks /\ w.out = k.out
      BY <1>3, <1>4 DEF Socks
    <3>2. SetSock(db, db, s, k)
      BY <1>2, SetFirst
    <3>3. d = [db EXCEPT !.sock[s].inn = Tail(k.inn)]
      OBVIOUS
    <3>4. SetSock(db, d, s, w)
      <4> HIDE DEF k
      <4> QED
        BY <1>2, <3>2, <3>3, SetField
    <3> HIDE DEF d, w, k, x, o
    <3>5. d \in ConsoleDbs /\ d.sock[s] = w
      BY <1>2, <3>1, <3>4, OneSock
    <3>6. SetSock(d, db', s, WithOut(w, s, x))
      BY <1>7, <3>5, OutSock
    <3>7. WithOut(w, s, x) = n
      BY <3>1 DEF WithOut, o
    <3> QED
      BY <1>2, <3>4, <3>6, <3>7, SetTwice
  <2>3. /\ n \in Socks /\ n.srv = "recv" /\ n.cmd = 0 /\ n.st = k.st /\ n.live = k.live /\ n.sent = k.sent
        /\ n.inn = Tail(k.inn) /\ n.out = o
    <3> HIDE DEF o
    <3> QED
      BY Zenon, <1>1, <1>3, <1>4, <2>1 DEF Socks
  <2> HIDE DEF n, o
  <2>4. SockOK(n)
    BY <1>6, <2>3 DEF SockOK
  <2>5. \A b \in Range(k.inn) : b \in Range(n.inn) \/ (n.st = "open" => Line("error", b) \in Range(n.out))
    BY <1>4, <2>1, <2>3
  <2> HIDE DEF c, x, k
  <2>6. ConsoleOK(f.lines, db')
    BY <1>2, <1>3, <1>4, <1>5, <2>1, <2>2, <2>3, <2>4, <2>5, HandlerSock DEF k
  <2> QED
    BY <1>1, <1>2, <2>6 DEF ConsoleInv
<1>8. CASE db' = [Idle(d, s, "end") EXCEPT !.sock[s].st = IF Reached(s) THEN "ending" ELSE @]
  <2> DEFINE w == [k EXCEPT !.inn = Tail(@)]
             v == WithIdle(w, "end")
             u == Idle(d, s, "end")
             st == IF Reached(s) THEN "ending" ELSE v.st
             n == [v EXCEPT !.st = st]
  <2>a. w \in Socks /\ SetSock(db, d, s, w)
    BY <1>3, <1>4 DEF Socks, SetSock
  <2>b. v \in Socks /\ v.srv = "end" /\ v.cmd = 0 /\ v.live = k.live /\ v.sent = k.sent /\ v.inn = <<>> /\ v.out = k.out /\ v.st = k.st
    BY <1>3, <2>a, EmptyQueue DEF Socks, WithIdle
  <2> HIDE DEF d, w, v
  <2>c. d \in ConsoleDbs /\ d.sock[s] = w
    BY <1>2, <2>a, OneSock
  <2>d. SetSock(d, u, s, v)
    BY <2>c, IdleSock DEF v
  <2>e. SetSock(db, u, s, v)
    BY <1>2, <2>a, <2>d, SetTwice
  <2> HIDE DEF u
  <2>f. u \in ConsoleDbs /\ u.sock[s] = v
    BY <1>2, <2>b, <2>e, OneSock
  <2>g. SetSock(u, db', s, n)
    BY <1>8, <2>f DEF SetSock, u
  <2>1. SetSock(db, db', s, n)
    BY <1>2, <2>e, <2>g, SetTwice
  <2>2. /\ n \in Socks /\ n.srv = "end" /\ n.cmd = 0 /\ n.live = k.live /\ n.sent = k.sent
        /\ n.inn = <<>> /\ n.out = k.out /\ n.st # "open" /\ n.st \notin {"none", "opening"}
        /\ n.st \in {"open", "ending"} => k.st \in {"open", "ending"}
    <3>1. st \in {"ending", "shut", "lost", "gone"} /\ (st = "ending" => k.st \in {"open", "ending"})
      BY <1>3, <1>6, <2>b DEF Socks, Reached
    <3> HIDE DEF st
    <3> QED
      BY <2>b, <3>1 DEF Socks
  <2> HIDE DEF n
  <2>3. SockOK(n)
    BY <2>2 DEF SockOK
  <2>4. Once(n.inn) /\ Range(n.inn) \subseteq Range(k.inn)
    BY <2>2, EmptyQueue
  <2>5. ConsoleOK(f.lines, db')
    BY <1>2, <1>3, <1>5, <2>1, <2>2, <2>3, <2>4, HandlerSock DEF k
  <2> QED
    BY <1>1, <1>2, <2>5 DEF ConsoleInv
<1> QED
  BY Zenon, <1>1, <1>7, <1>8

\* The handler finds its connection gone.
LEMMA RecvEndsKeeps == \A s \in Sock : ConsoleInv /\ RecvEnds(s) => ConsoleInv'
<1> SUFFICES ASSUME NEW s \in Sock, ConsoleInv, RecvEnds(s) PROVE ConsoleInv'
  OBVIOUS
<1> DEFINE k == db.sock[s]
           n == WithIdle(k, "end")
           x == Line("error", 0)
<1>1. k.srv = "recv" /\ k.inn = <<>> /\ k.st \notin {"open", "ending"} /\ f' = f /\ db' = Idle(db, s, "end")
  BY DEF RecvEnds, Steps, Reached
<1>2. f \in ConsoleFs /\ ConsoleOK(f.lines, db) /\ db \in ConsoleDbs
  BY DEF ConsoleInv, ConsoleOK
<1>3. SockOK(k) /\ k \in Socks /\ k.cmd = 0 /\ k.st \notin {"none", "opening"}
  BY <1>1, <1>2, SocksOK, SockParts DEF SockOK
<1>4. SetSock(db, db', s, n)
  BY <1>1, <1>2, IdleSock
<1>5. /\ n \in Socks /\ n.srv = "end" /\ n.cmd = 0 /\ n.live = k.live /\ n.sent = k.sent
      /\ n.inn = <<>> /\ n.out = k.out /\ n.st = k.st
  BY <1>3, EmptyQueue DEF Socks, WithIdle
<1> HIDE DEF n
<1>6. SockOK(n) /\ \A b : x # Line("done", b)
  BY <1>3, <1>5 DEF SockOK, Line
<1>7. Once(n.inn) /\ Range(n.inn) \subseteq Range(k.inn)
  BY <1>5, EmptyQueue
<1> HIDE DEF x
<1>8. ConsoleOK(f.lines, db')
  BY <1>1, <1>2, <1>3, <1>4, <1>5, <1>6, <1>7, HandlerSock DEF k
<1> QED
  BY <1>1, <1>2, <1>8 DEF ConsoleInv

\* Sockets that are as they should be.
LEMMA WorkBlank ==
  ASSUME NEW l, NEW d, NEW e, NEW s \in Sock, ConsoleOK(l, d), SockOK(e.sock[s]),
         \A r \in Sock \ {s} : e.sock[r] = d.sock[r]
  PROVE  AtWork(e) /\ Blank(e)
<1>1. \A r \in Sock : SockOK(e.sock[r])
  BY SocksOK
<1> QED
  BY <1>1 DEF SockOK, AtWork, Blank

\* What the finally block leaves.
LEMMA ReleaseFields ==
  ASSUME NEW d \in ConsoleDbs, NEW c \in Cmd, Once(d.pend), NEW e, e = Release(d, c)
  PROVE  /\ e \in ConsoleDbs /\ e.sock = d.sock /\ e.next = d.next /\ e.rest = d.rest /\ e.agent = d.agent
         /\ e.outs = d.outs /\ e.told = d.told
         /\ e.pend = RemoveFirst(d.pend, c) /\ e.wait = d.wait \ {c} /\ e.chunks = [d.chunks EXCEPT ![c] = <<>>]
<1> DEFINE p == RemoveFirst(d.pend, c)
           h == [d.chunks EXCEPT ![c] = <<>>]
<1>1. p \in Seq(Cmd)
  BY DbParts, Removed
<1>2. h \in [Cmd -> Seq(Replies)]
  BY DbParts, EmptyQueue
<1>3. e = [d EXCEPT !.pend = p, !.wait = d.wait \ {c}, !.chunks = h]
  BY DEF Release, ConsoleDbs
<1> HIDE DEF p, h
<1>4. /\ e \in ConsoleDbs /\ e.sock = d.sock /\ e.next = d.next /\ e.rest = d.rest /\ e.agent = d.agent
      /\ e.outs = d.outs /\ e.told = d.told /\ e.pend = p /\ e.wait = d.wait \ {c} /\ e.chunks = h
  BY <1>1, <1>2, <1>3 DEF ConsoleDbs
<1> QED
  BY <1>4 DEF p, h

\* The handler receives a command.
LEMMA ReceivesKeeps == \A s \in Sock : ConsoleInv /\ Receives(s) => ConsoleInv'
<1> SUFFICES ASSUME NEW s \in Sock, ConsoleInv, Receives(s) PROVE ConsoleInv'
  OBVIOUS
<1> DEFINE k == db.sock[s]
           c == Head(k.inn)
           w == [k EXCEPT !.inn = Tail(@)]
           d == [db EXCEPT !.sock[s].inn = Tail(@)]
           u == Enqueue(d, c)
           n == [w EXCEPT !.srv = "queued", !.cmd = c]
<1>1. k.srv = "recv" /\ k.inn # <<>> /\ f' = f /\ db' = [u EXCEPT !.sock[s].srv = "queued", !.sock[s].cmd = c]
  BY DEF Receives, Steps
<1>2. f \in ConsoleFs /\ ConsoleOK(f.lines, db) /\ db \in ConsoleDbs
  BY DEF ConsoleInv, ConsoleOK
<1>3. SockOK(k) /\ k \in Socks /\ k.inn \in Seq(Cmd) /\ k.cmd = 0 /\ k.st \notin {"none", "opening"}
  BY <1>1, <1>2, SocksOK, SockParts DEF SockOK
<1>4. c \in Cmd /\ Tail(k.inn) \in Seq(Cmd) /\ c # 0
  <2>1. c \in Cmd /\ Tail(k.inn) \in Seq(Cmd)
    BY <1>1, <1>3, Taken
  <2> QED
    BY <2>1, CmdType
<1>5. w \in Socks /\ SetSock(db, d, s, w)
  BY <1>3, <1>4 DEF Socks, SetSock
<1>6. /\ n \in Socks /\ n.srv = "queued" /\ n.cmd = c /\ n.st = k.st /\ n.live = k.live /\ n.sent = k.sent
      /\ n.inn = Tail(k.inn) /\ n.out = k.out
  BY <1>3, <1>4 DEF Socks
<1> HIDE DEF d, w, c
<1>7. /\ d \in ConsoleDbs /\ d.sock[s] = w /\ \A r \in Sock \ {s} : d.sock[r] = db.sock[r]
      /\ d.next = db.next /\ d.pend = db.pend /\ d.wait = db.wait /\ d.chunks = db.chunks /\ d.rest = db.rest
      /\ d.agent = db.agent /\ d.outs = db.outs /\ d.told = db.told
  BY <1>2, <1>5, OneSock
<1>8. Append(d.pend, c) \in Seq(Cmd)
  BY <1>4, <1>7, DbParts, Appended
<1>9. /\ u \in ConsoleDbs /\ u.sock = d.sock
      /\ u.next = d.next /\ u.pend = Append(d.pend, c) /\ u.wait = d.wait \cup {c} /\ u.chunks = d.chunks /\ u.rest = d.rest
      /\ u.agent = d.agent /\ u.outs = d.outs /\ u.told = d.told
  BY <1>4, <1>7, <1>8 DEF Enqueue, ConsoleDbs
<1> HIDE DEF u
<1>10. SetSock(u, db', s, n)
  <2> DEFINE v == [w EXCEPT !.srv = "queued"]
             g == [u EXCEPT !.sock[s].srv = "queued"]
  <2>1. SetSock(u, u, s, w)
    BY <1>7, <1>9, SetFirst
  <2>2. SetSock(u, g, s, v)
    BY <1>9, <2>1, SetField
  <2>3. n = [v EXCEPT !.cmd = c] /\ db' = [g EXCEPT !.sock[s].cmd = c]
    BY <1>1
  <2> HIDE DEF v, g, n
  <2> QED
    BY <1>9, <2>2, <2>3, SetField
<1> HIDE DEF n
<1>11. /\ db' \in ConsoleDbs /\ db'.sock[s] = n /\ \A r \in Sock \ {s} : db'.sock[r] = u.sock[r]
       /\ db'.next = u.next /\ db'.pend = u.pend /\ db'.wait = u.wait /\ db'.chunks = u.chunks /\ db'.rest = u.rest
       /\ db'.agent = u.agent /\ db'.outs = u.outs /\ db'.told = u.told
  BY <1>6, <1>9, <1>10, OneSock
<1>12. SockOK(n)
  BY <1>3, <1>4, <1>6 DEF SockOK
<1>13. \A r \in Sock \ {s} : db'.sock[r] = db.sock[r]
  BY <1>7, <1>9, <1>11
<1>14. AtWork(db') /\ Blank(db')
  BY <1>2, <1>11, <1>12, <1>13, WorkBlank
<1>15. ConsoleOK(f.lines, db')
  <2>1. /\ db'.next = db.next /\ db'.chunks = db.chunks /\ db'.rest = db.rest /\ db'.agent = db.agent
        /\ db'.outs = db.outs /\ db'.told = db.told /\ db'.pend = Append(db.pend, c) /\ db'.wait = db.wait \cup {c}
    BY <1>7, <1>9, <1>11
  <2>2. /\ db'.sock[s].st = db.sock[s].st /\ db'.sock[s].live = db.sock[s].live /\ db'.sock[s].sent = db.sock[s].sent
        /\ db'.sock[s].out = db.sock[s].out /\ db'.sock[s].inn = Tail(db.sock[s].inn) /\ db'.sock[s].cmd = c
    BY <1>6, <1>11 DEF k
  <2>3. db.sock[s].cmd = 0 /\ db.sock[s].inn # <<>> /\ c = Head(db.sock[s].inn)
    BY <1>1, <1>3 DEF k, c
  <2>4. ConsoleOK(f.lines, db) /\ db' \in ConsoleDbs
    BY <1>2, <1>11
  <2> QED
    BY <1>13, <1>14, <2>1, <2>2, <2>3, <2>4, ReceiveStep
<1> QED
  BY <1>1, <1>2, <1>15 DEF ConsoleInv

\* Before the finally block of the handler of s: u differs from d in what was passed
\* on of the command c only.
Ending(d, u, s, c, st, o) ==
  /\ u \in ConsoleDbs /\ u.next = d.next /\ u.pend = d.pend /\ u.wait = d.wait /\ u.rest = d.rest
  /\ u.agent = d.agent /\ u.outs = d.outs /\ u.told = d.told
  /\ \A b \in Cmd \ {c} : u.chunks[b] = d.chunks[b]
  /\ \A r \in Sock \ {s} : u.sock[r] = d.sock[r]
  /\ u.sock[s] = [d.sock[s] EXCEPT !.out = o]
  /\ d.sock[s].cmd = c /\ (st = "end" => d.sock[s].st # "open")
  /\ \/ o = d.sock[s].out /\ d.sock[s].st # "open"
     \/ o = Append(d.sock[s].out, Line("error", c))
     \/ o = Append(d.sock[s].out, Line("done", c)) /\ d.chunks[c] # <<>> /\ Head(d.chunks[c]) = Line("done", c)

\* The handler of s gives up its command c.
LEMMA EndKeeps ==
  ASSUME NEW l, NEW d, NEW u, NEW e, NEW s \in Sock, NEW c \in Cmd, NEW st \in {"recv", "end"}, NEW o \in Seq(Replies),
         ConsoleOK(l, d), Ending(d, u, s, c, st, o), e = Idle(Release(u, c), s, st)
  PROVE  ConsoleOK(l, e)
<1> DEFINE k == d.sock[s]
           m == [k EXCEPT !.out = o]
           v == Release(u, c)
           n == WithIdle(m, st)
<1>1. /\ d \in ConsoleDbs /\ SockOK(k) /\ k \in Socks /\ Once(d.pend) /\ c # 0 /\ k.cmd = c
      /\ k.st \notin {"none", "opening"}
  <2>1. d \in ConsoleDbs /\ SockOK(k) /\ Once(d.pend) /\ c # 0
    BY SocksOK, CmdType DEF ConsoleOK, Waited
  <2> QED
    BY <2>1 DEF SockOK, Ending
<1>2. m \in Socks /\ m.st = k.st /\ m.live = k.live /\ m.sent = k.sent /\ m.inn = k.inn /\ m.out = o
  BY <1>1 DEF Socks
<1>3. /\ v \in ConsoleDbs /\ v.sock = u.sock /\ v.next = u.next /\ v.rest = u.rest /\ v.agent = u.agent
      /\ v.outs = u.outs /\ v.told = u.told
      /\ v.pend = RemoveFirst(u.pend, c) /\ v.wait = u.wait \ {c} /\ v.chunks = [u.chunks EXCEPT ![c] = <<>>]
  <2>1. u \in ConsoleDbs /\ Once(u.pend)
    BY <1>1 DEF Ending
  <2> QED
    BY <2>1, ReleaseFields
<1>4. /\ u.sock[s] = m /\ \A r \in Sock \ {s} : u.sock[r] = d.sock[r]
      /\ u.next = d.next /\ u.pend = d.pend /\ u.wait = d.wait /\ u.rest = d.rest
      /\ u.agent = d.agent /\ u.outs = d.outs /\ u.told = d.told
  BY DEF Ending
<1>5. e = Idle(v, s, st)
  OBVIOUS
<1> HIDE DEF m, v
<1>6. /\ n \in Socks /\ n.srv = st /\ n.cmd = 0 /\ n.st = k.st /\ n.live = k.live /\ n.sent = k.sent
      /\ n.out = o /\ n.inn = IF st = "end" THEN <<>> ELSE k.inn
  BY <1>2, EmptyQueue DEF WithIdle, Socks
<1>7. SetSock(v, e, s, n)
  BY <1>3, <1>4, <1>5, IdleSock
<1> HIDE DEF n
<1>8. /\ e \in ConsoleDbs /\ e.sock[s] = n /\ \A r \in Sock \ {s} : e.sock[r] = v.sock[r]
      /\ e.next = v.next /\ e.pend = v.pend /\ e.wait = v.wait /\ e.chunks = v.chunks /\ e.rest = v.rest
      /\ e.agent = v.agent /\ e.outs = v.outs /\ e.told = v.told
  BY <1>3, <1>6, <1>7, OneSock
<1>9. SockOK(n)
  BY <1>1, <1>6 DEF SockOK
<1>10. \A r \in Sock \ {s} : e.sock[r] = d.sock[r]
  BY <1>3, <1>4, <1>8
<1>11. AtWork(e) /\ Blank(e)
  BY <1>8, <1>9, <1>10, WorkBlank
<1>12. Released(d, e, c)
  <2>1. e.chunks = [d.chunks EXCEPT ![c] = <<>>]
    <3>1. d.chunks \in [Cmd -> Seq(Replies)] /\ u.chunks \in [Cmd -> Seq(Replies)] /\ \A b \in Cmd \ {c} : u.chunks[b] = d.chunks[b]
      BY <1>1, DbParts DEF Ending
    <3> QED
      BY ZenonT(60), <1>3, <1>8, <3>1
  <2> QED
    BY <1>3, <1>4, <1>8, <1>11, <2>1 DEF Released
<1>13. e.rest = d.rest
  BY <1>3, <1>4, <1>8
<1>14. /\ e.sock[s].st = d.sock[s].st /\ e.sock[s].live = d.sock[s].live /\ e.sock[s].sent = d.sock[s].sent /\ e.sock[s].cmd = 0
       /\ e.sock[s].inn = d.sock[s].inn \/ (e.sock[s].inn = <<>> /\ e.sock[s].st # "open")
       /\ e.sock[s].out = o /\ c = d.sock[s].cmd
  BY <1>1, <1>6, <1>8 DEF Ending
<1>15. \/ e.sock[s].out = d.sock[s].out /\ e.sock[s].st # "open"
       \/ e.sock[s].out = Append(d.sock[s].out, Line("error", c))
       \/ /\ e.sock[s].out = Append(d.sock[s].out, Line("done", c))
          /\ d.chunks[c] # <<>> /\ Head(d.chunks[c]) = Line("done", c)
  BY <1>14 DEF Ending
<1>16. Ended(d, e, s, c)
  BY Zenon, <1>10, <1>13, <1>14, <1>15 DEF Ended
<1> QED
  BY <1>12, <1>16, EndStep

\* The handler finds that its connection is gone while it works on a command.
LEMMA RaisesKeeps == \A s \in Sock : ConsoleInv /\ Raises(s) => ConsoleInv'
<1> SUFFICES ASSUME NEW s \in Sock, ConsoleInv, Raises(s) PROVE ConsoleInv'
  OBVIOUS
<1> DEFINE k == db.sock[s]
           c == k.cmd
<1>1. k.srv \in {"queued", "wait"} /\ k.st \notin {"open", "ending"} /\ f' = f /\ db' = Idle(Release(db, c), s, "end")
  BY DEF Raises, Steps, Reached
<1>2. f \in ConsoleFs /\ ConsoleOK(f.lines, db) /\ db \in ConsoleDbs
  BY DEF ConsoleInv, ConsoleOK
<1>3. k \in Socks /\ k.out \in Seq(Replies) /\ c \in Cmd
  BY <1>1, <1>2, SocksOK, SockParts DEF SockOK
<1>4. Ending(db, db, s, c, "end", k.out)
  <2>1. k = [k EXCEPT !.out = k.out]
    BY <1>3 DEF Socks
  <2> QED
    BY <1>1, <1>2, <2>1 DEF Ending
<1> HIDE DEF k, c
<1>5. ConsoleOK(f.lines, db')
  BY <1>1, <1>2, <1>3, <1>4, EndKeeps
<1> QED
  BY <1>1, <1>2, <1>5 DEF ConsoleInv

\* The wait for the result is over.
LEMMA TimesOutKeeps == \A s \in Sock : ConsoleInv /\ TimesOut(s) => ConsoleInv'
<1> SUFFICES ASSUME NEW s \in Sock, ConsoleInv, TimesOut(s) PROVE ConsoleInv'
  OBVIOUS
<1> DEFINE k == db.sock[s]
           c == k.cmd
           x == Line("error", c)
           u == Out(db, s, x)
           o == IF Reached(s) THEN Append(k.out, x) ELSE k.out
           n == WithOut(k, s, x)
<1>1. k.srv = "wait" /\ f' = f /\ db' = Idle(Release(u, c), s, "recv")
  BY DEF TimesOut, Happens
<1>2. f \in ConsoleFs /\ ConsoleOK(f.lines, db) /\ db \in ConsoleDbs
  BY DEF ConsoleInv, ConsoleOK
<1>3. k \in Socks /\ k.out \in Seq(Replies) /\ c \in Cmd
  BY <1>1, <1>2, SocksOK, SockParts DEF SockOK
<1>4. x \in Replies
  BY <1>3 DEF Line, Replies
<1>5. o \in Seq(Replies)
  BY <1>3, <1>4, Appended
<1>6. n = [k EXCEPT !.out = o] /\ SetSock(db, u, s, n)
  BY <1>2, OutSock DEF WithOut
<1>7. o = Append(k.out, x) \/ (o = k.out /\ k.st # "open")
  BY DEF Reached
<1> HIDE DEF u, o, n
<1>8. n \in Socks
  BY <1>3, <1>5, <1>6 DEF Socks
<1>9. /\ u \in ConsoleDbs /\ u.sock[s] = n /\ \A r \in Sock \ {s} : u.sock[r] = db.sock[r]
      /\ u.next = db.next /\ u.pend = db.pend /\ u.wait = db.wait /\ u.chunks = db.chunks /\ u.rest = db.rest
      /\ u.agent = db.agent /\ u.outs = db.outs /\ u.told = db.told
  BY <1>2, <1>6, <1>8, OneSock
<1>10. Ending(db, u, s, c, "recv", o)
  BY <1>6, <1>7, <1>9 DEF Ending
<1> HIDE DEF k, c
<1>11. ConsoleOK(f.lines, db')
  BY <1>1, <1>2, <1>3, <1>5, <1>10, EndKeeps
<1> QED
  BY <1>1, <1>2, <1>11 DEF ConsoleInv

\* What came back is passed on; the exit code ends the command.
LEMMA PassesKeeps == \A s \in Sock : ConsoleInv /\ Passes(s) => ConsoleInv'
<1> SUFFICES ASSUME NEW s \in Sock, ConsoleInv, Passes(s) PROVE ConsoleInv'
  OBVIOUS
<1> DEFINE k == db.sock[s]
           c == k.cmd
           t == db.chunks[c]
           x == Head(t)
           a == [db EXCEPT !.chunks[c] = Tail(@)]
           u == Out(a, s, x)
           o == IF Reached(s) THEN Append(k.out, x) ELSE k.out
           n == WithOut(k, s, x)
<1>1. k.srv = "wait" /\ t # <<>> /\ f' = f /\ db' = IF x[1] = "done" THEN Idle(Release(u, c), s, "recv") ELSE u
  BY DEF Passes, Steps
<1>2. f \in ConsoleFs /\ ConsoleOK(f.lines, db) /\ db \in ConsoleDbs
  BY DEF ConsoleInv, ConsoleOK
<1>3. k \in Socks /\ SockOK(k) /\ k.out \in Seq(Replies) /\ c \in Cmd /\ k.st \notin {"none", "opening"}
  BY <1>1, <1>2, SocksOK, SockParts DEF SockOK
<1>4. t \in Seq(Replies) /\ Range(t) \subseteq {Line("output", c), Line("done", c)} /\ db.chunks \in [Cmd -> Seq(Replies)]
  BY <1>2, <1>3, DbParts DEF ConsoleOK, Silent
<1>5. x \in Replies /\ Tail(t) \in Seq(Replies) /\ x \in Range(t)
  BY <1>1, <1>4, Taken
<1>6. o \in Seq(Replies)
  BY <1>3, <1>5, Appended
<1>7. /\ a \in ConsoleDbs /\ a.sock = db.sock /\ a.next = db.next /\ a.pend = db.pend /\ a.wait = db.wait /\ a.rest = db.rest
      /\ a.agent = db.agent /\ a.outs = db.outs /\ a.told = db.told /\ a.chunks = [db.chunks EXCEPT ![c] = Tail(@)]
  <2> HIDE DEF c
  <2>1. [db.chunks EXCEPT ![c] = Tail(@)] \in [Cmd -> Seq(Replies)]
    BY <1>4, <1>5
  <2> QED
    BY <1>2, <2>1 DEF ConsoleDbs
<1>8. n = [k EXCEPT !.out = o] /\ SetSock(a, u, s, n)
  <2> HIDE DEF a, x
  <2> QED
    BY <1>7, OutSock DEF WithOut
<1>9. o = Append(k.out, x) \/ (o = k.out /\ k.st \notin {"open", "ending"})
  BY DEF Reached
<1> HIDE DEF a, u, o, n
<1>10. /\ n \in Socks /\ n.srv = k.srv /\ n.cmd = k.cmd /\ n.st = k.st /\ n.live = k.live /\ n.sent = k.sent
       /\ n.inn = k.inn /\ n.out = o
  BY <1>3, <1>6, <1>8 DEF Socks
<1>11. /\ u \in ConsoleDbs /\ u.sock[s] = n /\ \A r \in Sock \ {s} : u.sock[r] = a.sock[r]
       /\ u.next = a.next /\ u.pend = a.pend /\ u.wait = a.wait /\ u.chunks = a.chunks /\ u.rest = a.rest
       /\ u.agent = a.agent /\ u.outs = a.outs /\ u.told = a.told
  BY <1>7, <1>8, <1>10, OneSock
<1>12. \A r \in Sock \ {s} : u.sock[r] = db.sock[r]
  BY <1>7, <1>11
<1>13. CASE x = Line("done", c)
  <2>1. x[1] = "done"
    BY <1>13 DEF Line
  <2>2. \A b \in Cmd \ {c} : u.chunks[b] = db.chunks[b]
    BY <1>3, <1>4, <1>7, <1>11
  <2>3. Ending(db, u, s, c, "recv", o)
    BY Zenon, <1>1, <1>7, <1>8, <1>9, <1>11, <1>12, <1>13, <2>2 DEF Ending
  <2> HIDE DEF x, t, c, k
  <2>4. ConsoleOK(f.lines, db')
    BY <1>1, <1>2, <1>3, <1>6, <2>1, <2>3, EndKeeps
  <2> QED
    BY <1>1, <1>2, <2>4 DEF ConsoleInv
<1>14. CASE x # Line("done", c)
  <2>1. x = Line("output", c) /\ x[1] # "done" /\ db' = u
    <3>1. x = Line("output", c)
      BY <1>4, <1>5, <1>14
    <3>2. x[1] # "done"
      BY <3>1 DEF Line
    <3> QED
      BY <1>1, <3>1, <3>2
  <2>2. SockOK(n)
    BY <1>3, <1>10 DEF SockOK
  <2>3. AtWork(u) /\ Blank(u)
    BY <1>2, <1>11, <1>12, <2>2, WorkBlank
  <2>4. Passed(db, u, s, c)
    BY <1>1, <1>7, <1>9, <1>10, <1>11, <1>12, <1>14, <2>3 DEF Passed
  <2> HIDE DEF x, t, c, k
  <2>5. ConsoleOK(f.lines, u)
    BY <1>2, <1>3, <2>4, PassStep
  <2> QED
    BY <1>1, <1>2, <2>1, <2>5 DEF ConsoleInv
<1> QED
  BY <1>13, <1>14

\* A command is entered.
LEMMA SendKeeps == ConsoleInv /\ sendCommand => ConsoleInv'
<1> SUFFICES ASSUME ConsoleInv, sendCommand PROVE ConsoleInv'
  OBVIOUS
<1> DEFINE s == f.ref
           c == db.next
           k == db.sock[s]
           i == IF k.st = "open" THEN Append(k.inn, c) ELSE k.inn
           n == [k EXCEPT !.sent = k.sent \cup {c}, !.inn = i]
           x == Line("input", c)
<1>1. /\ s # 0 /\ c \in Cmd /\ k.st \in {"open", "ending"}
      /\ f' = [f EXCEPT !.lines = Append(@, x)]
      /\ db' = [[db EXCEPT !.next = c + 1] EXCEPT !.sock[s].sent = @ \cup {c},
                  !.sock[s].inn = IF k.st = "open" THEN Append(@, c) ELSE @]
  BY DEF sendCommand, Steps
<1>2. f \in ConsoleFs /\ ConsoleOK(f.lines, db) /\ db \in ConsoleDbs /\ f.lines \in Seq(Lines)
  BY DEF ConsoleInv, ConsoleOK
<1>3. s \in Sock
  BY <1>1, <1>2 DEF ConsoleFs
<1>4. k \in Socks /\ SockOK(k) /\ k.inn \in Seq(Cmd)
  BY <1>2, <1>3, SocksOK, SockParts DEF SockOK
<1>5. i \in Seq(Cmd)
  BY <1>1, <1>4, Appended
<1>6. x \in Lines /\ Append(f.lines, x) \in Seq(Lines) /\ c \in Nat /\ c + 1 \in 1..(MaxCmd + 1)
  <2>1. x \in Lines /\ Append(f.lines, x) \in Seq(Lines)
    BY <1>1, <1>2, CmdType, Appended
  <2> QED
    BY <1>1, <2>1, ConsoleAssumption DEF Cmd
<1>7. f' \in ConsoleFs /\ f'.lines = Append(f.lines, x)
  BY <1>1, <1>2, <1>6 DEF ConsoleFs
<1>8. db' = [db EXCEPT !.next = c + 1, !.sock[s] = n]
  <2> DEFINE m == [k EXCEPT !.sent = k.sent \cup {c}]
             d == [db EXCEPT !.next = c + 1]
             e == [d EXCEPT !.sock[s].sent = k.sent \cup {c}]
  <2>1. d \in ConsoleDbs /\ d.sock = db.sock
    BY <1>2, <1>6 DEF ConsoleDbs
  <2>2. n = [m EXCEPT !.inn = i]
    OBVIOUS
  <2> HIDE DEF s, c
  <2>3. SetSock(d, d, s, k)
    BY <1>3, <2>1, SetFirst
  <2>4. SetSock(d, e, s, m)
    <3> HIDE DEF d, k
    <3> QED
      BY <1>3, <2>1, <2>3, SetField
  <2>5. d.sock[s] = k
    BY <2>1
  <2>6. db' = [e EXCEPT !.sock[s].inn = i]
    <3>1. db' = [d EXCEPT !.sock[s].sent = @ \cup {c}, !.sock[s].inn = IF k.st = "open" THEN Append(@, c) ELSE @]
      BY Zenon, <1>1
    <3>2. db' = [d EXCEPT !.sock[s].sent = k.sent \cup {c}, !.sock[s].inn = IF k.st = "open" THEN Append(k.inn, c) ELSE k.inn]
      <4> HIDE DEF d, k
      <4> QED
        BY <2>5, <3>1
    <3> QED
      BY Zenon, <3>2
  <2>7. SetSock(d, db', s, n)
    <3> HIDE DEF d, e, i, m, n
    <3> QED
      BY <1>3, <2>1, <2>2, <2>4, <2>6, SetField
  <2> HIDE DEF n
  <2> QED
    BY <2>7 DEF SetSock
<1>9. /\ n \in Socks /\ n.srv = k.srv /\ n.cmd = k.cmd /\ n.st = k.st /\ n.live = k.live /\ n.out = k.out
      /\ n.sent = k.sent \cup {c} /\ n.inn = i
  <2> HIDE DEF i, c
  <2> QED
    BY <1>1, <1>4, <1>5 DEF Socks
<1>10. i = Append(k.inn, c) \/ (i = k.inn /\ k.st # "open")
  OBVIOUS
<1> HIDE DEF n, i, x, c, s, k
<1>11. /\ db' \in ConsoleDbs /\ db'.sock[s] = n /\ \A r \in Sock \ {s} : db'.sock[r] = db.sock[r]
       /\ db'.next = c + 1 /\ db'.pend = db.pend /\ db'.wait = db.wait /\ db'.chunks = db.chunks /\ db'.rest = db.rest
       /\ db'.agent = db.agent /\ db'.outs = db.outs /\ db'.told = db.told
  BY <1>2, <1>3, <1>6, <1>8, <1>9 DEF ConsoleDbs
<1>12. SockOK(db'.sock[s])
  <2>1. SockOK(n)
    BY <1>1, <1>4, <1>9 DEF SockOK
  <2> QED
    BY <1>11, <2>1
<1>13. AtWork(db') /\ Blank(db')
  <2>1. \A r \in Sock \ {s} : db'.sock[r] = db.sock[r]
    BY <1>11
  <2> QED
    BY <1>2, <1>3, <1>12, <2>1, WorkBlank
<1>14. Entered(f.lines, db, f'.lines, db', s, c)
  BY <1>7, <1>9, <1>10, <1>11, <1>13 DEF Entered, x, c, k
<1>15. ConsoleOK(f'.lines, db')
  BY <1>1, <1>2, <1>3, <1>14, SendStep
<1> QED
  BY <1>7, <1>15 DEF ConsoleInv

\* POST /run: its command, and its end.
LEMMA RunSyncKeeps == ConsoleInv /\ (RunSync \/ RunSyncEnds) => ConsoleInv'
<1> SUFFICES ASSUME ConsoleInv PROVE (RunSync => ConsoleInv') /\ (RunSyncEnds => ConsoleInv')
  OBVIOUS
<1>1. /\ f \in ConsoleFs /\ ConsoleOK(f.lines, db) /\ db \in ConsoleDbs /\ db.pend \in Seq(Cmd) /\ Once(db.pend)
      /\ db.wait \subseteq Cmd /\ AtWork(db) /\ Blank(db)
  BY DbParts DEF ConsoleInv, ConsoleOK, Waited
<1>2. ASSUME RunSync PROVE ConsoleInv'
  <2> DEFINE c == db.next
             p == Append(db.pend, c)
             w == db.wait \cup {c}
  <2>1. c \in Cmd /\ db.rest = 0 /\ f' = f /\ db' = [Enqueue(db, c) EXCEPT !.rest = c, !.next = @ + 1]
    BY <1>2 DEF RunSync, Happens
  <2>2. p \in Seq(Cmd) /\ w \subseteq Cmd /\ c + 1 \in 1..(MaxCmd + 1) /\ c \in Nat
    <3>1. p \in Seq(Cmd)
      BY <1>1, <2>1, Appended
    <3> QED
      BY <1>1, <2>1, <3>1, ConsoleAssumption DEF Cmd
  <2>3. db' = [db EXCEPT !.pend = p, !.wait = w, !.rest = c, !.next = c + 1]
    BY <1>1, <2>1 DEF Enqueue, ConsoleDbs
  <2> HIDE DEF p, w, c
  <2>4. /\ db' \in ConsoleDbs /\ db'.rest = c /\ db'.next = c + 1 /\ db'.sock = db.sock /\ db'.chunks = db.chunks
        /\ db'.agent = db.agent /\ db'.outs = db.outs /\ db'.told = db.told /\ db'.pend = p /\ db'.wait = w
    BY ZenonT(60), <1>1, <2>1, <2>2, <2>3 DEF ConsoleDbs
  <2>5. c = db.next /\ p = Append(db.pend, c) /\ w = db.wait \cup {c}
    BY DEF c, p, w
  <2>6. c \in Cmd /\ ConsoleOK(f.lines, db) /\ db' \in ConsoleDbs /\ c = db.next /\ db.rest = 0
    BY <1>1, <2>1, <2>4, <2>5
  <2>7. db'.rest = c /\ db'.next = c + 1
    BY <2>4
  <2>8. /\ db'.sock = db.sock /\ db'.chunks = db.chunks /\ db'.agent = db.agent /\ db'.outs = db.outs /\ db'.told = db.told
        /\ db'.pend = Append(db.pend, c) /\ db'.wait = db.wait \cup {c}
    BY <2>4, <2>5
  <2>9. ConsoleOK(f.lines, db')
    BY <2>6, <2>7, <2>8, RunStep
  <2> QED
    BY <1>1, <2>1, <2>9 DEF ConsoleInv
<1>3. ASSUME RunSyncEnds PROVE ConsoleInv'
  <2> DEFINE c == db.rest
             u == Release(db, c)
  <2>1. c \in Cmd /\ f' = f /\ db' = [u EXCEPT !.rest = 0]
    BY <1>1, <1>3, DbParts DEF RunSyncEnds, Happens, Steps
  <2>2. /\ u \in ConsoleDbs /\ u.sock = db.sock /\ u.next = db.next /\ u.agent = db.agent
        /\ u.outs = db.outs /\ u.told = db.told
        /\ u.pend = RemoveFirst(db.pend, c) /\ u.wait = db.wait \ {c} /\ u.chunks = [db.chunks EXCEPT ![c] = <<>>]
    <3>1. db \in ConsoleDbs /\ c \in Cmd /\ Once(db.pend) /\ u = Release(db, c)
      BY <1>1, <2>1
    <3> HIDE DEF u, c
    <3> QED
      BY <3>1, ReleaseFields
  <2> HIDE DEF u
  <2>3. /\ db' \in ConsoleDbs /\ db'.rest = 0 /\ db'.sock = u.sock /\ db'.next = u.next /\ db'.agent = u.agent
        /\ db'.outs = u.outs /\ db'.told = u.told /\ db'.pend = u.pend /\ db'.wait = u.wait /\ db'.chunks = u.chunks
    BY <2>1, <2>2 DEF ConsoleDbs
  <2>4. AtWork(db') /\ Blank(db') /\ db'.sock = db.sock
    BY <1>1, <2>2, <2>3 DEF AtWork, Blank
  <2>5. Released(db, db', c)
    BY <2>2, <2>3, <2>4 DEF Released
  <2>6. db'.rest = 0 /\ db'.sock = db.sock /\ c = db.rest
    BY <2>3, <2>4
  <2> HIDE DEF c
  <2>7. ConsoleOK(f.lines, db')
    BY <1>1, <2>1, <2>5, <2>6, RunEndStep
  <2> QED
    BY <1>1, <2>1, <2>7 DEF ConsoleInv
<1> QED
  BY <1>2, <1>3

\* The agent takes a command; a command or a result is lost.
LEMMA PollKeeps == ConsoleInv /\ (PollCommand \/ PollLost \/ ResultLost) => ConsoleInv'
<1> SUFFICES ASSUME ConsoleInv, PollCommand \/ PollLost \/ ResultLost PROVE ConsoleInv'
  OBVIOUS
<1>1. /\ f \in ConsoleFs /\ ConsoleOK(f.lines, db) /\ db \in ConsoleDbs /\ db.pend \in Seq(Cmd) /\ Once(db.pend)
      /\ db.agent \in {0} \cup Cmd /\ db.agent \notin Range(db.pend) /\ 0 \notin Range(db.pend)
  <2>1. f \in ConsoleFs /\ ConsoleOK(f.lines, db) /\ db \in ConsoleDbs
    BY DEF ConsoleInv, ConsoleOK
  <2>2. db.pend \in Seq(Cmd) /\ db.agent \in {0} \cup Cmd
    BY <2>1, DbParts
  <2>3. Range(db.pend) \subseteq Cmd /\ 0 \notin Cmd
    BY <2>2, InRange, CmdType
  <2> QED
    BY <2>1, <2>2, <2>3 DEF ConsoleOK, Waited
<1>2. \E p \in Seq(Cmd), a \in {0} \cup Cmd :
        /\ db' = [db EXCEPT !.pend = p, !.agent = a] /\ f' = f
        /\ Once(p) /\ Range(p) \subseteq Range(db.pend) /\ a \notin Range(p)
        /\ a = 0 \/ a = db.agent \/ a \in Range(db.pend)
  <2> DEFINE h == Head(db.pend)
             t == Tail(db.pend)
  <2>1. db.pend # <<>> => h \in Cmd /\ t \in Seq(Cmd) /\ Once(t) /\ Range(db.pend) = Range(t) \cup {h} /\ h \notin Range(t)
    BY <1>1, Taken
  <2>2. CASE PollCommand
    <3>1. f' = f /\ db.pend # <<>> /\ db' = [db EXCEPT !.pend = t, !.agent = h]
      BY <1>1, <2>2 DEF PollCommand, Steps, ConsoleDbs
    <3> HIDE DEF h, t
    <3> QED
      BY <2>1, <3>1
  <2>3. CASE PollLost
    <3>1. f' = f /\ db.pend # <<>> /\ db' = [db EXCEPT !.pend = t, !.agent = db.agent]
      BY <1>1, <2>3 DEF PollLost, Happens, ConsoleDbs
    <3> HIDE DEF h, t
    <3> QED
      BY <1>1, <2>1, <3>1
  <2>4. CASE ResultLost
    <3>1. f' = f /\ db' = [db EXCEPT !.pend = db.pend, !.agent = 0]
      BY <1>1, <2>4 DEF ResultLost, Happens, ConsoleDbs
    <3> QED
      BY <1>1, <3>1
  <2> QED
    BY <2>2, <2>3, <2>4
<1>3. PICK p \in Seq(Cmd), a \in {0} \cup Cmd :
        /\ db' = [db EXCEPT !.pend = p, !.agent = a] /\ f' = f
        /\ Once(p) /\ Range(p) \subseteq Range(db.pend) /\ a \notin Range(p)
        /\ a = 0 \/ a = db.agent \/ a \in Range(db.pend)
  BY <1>2
<1>4. /\ db' \in ConsoleDbs /\ db'.pend = p /\ db'.agent = a /\ db'.sock = db.sock /\ db'.next = db.next /\ db'.wait = db.wait
      /\ db'.chunks = db.chunks /\ db'.rest = db.rest /\ db'.outs = db.outs /\ db'.told = db.told
  BY <1>1, <1>3 DEF ConsoleDbs
<1>5. /\ Once(db'.pend) /\ Range(db'.pend) \subseteq Range(db.pend) /\ db'.agent \notin Range(db'.pend)
      /\ db'.agent = 0 \/ db'.agent = db.agent \/ db'.agent \in Range(db.pend)
  BY <1>3, <1>4
<1>6. /\ db' \in ConsoleDbs
      /\ db'.sock = db.sock /\ db'.next = db.next /\ db'.wait = db.wait /\ db'.chunks = db.chunks /\ db'.rest = db.rest
      /\ db'.outs = db.outs /\ db'.told = db.told
  BY <1>4
<1>7. ConsoleOK(f.lines, db')
  BY <1>1, <1>5, <1>6, AgentStep
<1> QED
  BY <1>1, <1>3, <1>7 DEF ConsoleInv

\* The agent's result.
LEMMA ResultKeeps == ConsoleInv /\ PostCommandResult => ConsoleInv'
<1> SUFFICES ASSUME ConsoleInv, PostCommandResult PROVE ConsoleInv'
  OBVIOUS
<1> DEFINE c == db.agent
           T(p) == IF c \notin db.wait THEN db.chunks[c] ELSE IF p THEN db.chunks[c] \o ResultChunks(c) ELSE Append(db.chunks[c], Line("done", c))
           O(p) == IF p THEN db.outs \cup {c} ELSE db.outs
<1>1. PICK p \in BOOLEAN : /\ c # 0 /\ f' = f
                           /\ db' = [db EXCEPT !.agent = 0, !.outs = O(p), !.chunks[c] = T(p)]
  BY DEF PostCommandResult, Steps
<1>2. f \in ConsoleFs /\ ConsoleOK(f.lines, db) /\ db \in ConsoleDbs
  BY DEF ConsoleInv, ConsoleOK
<1>3. c \in Cmd /\ db.outs \subseteq Cmd /\ db.chunks \in [Cmd -> Seq(Replies)]
  BY <1>1, <1>2, DbParts
<1>4. db.chunks[c] = <<>>
  BY <1>2, <1>3 DEF ConsoleOK, Silent, Unrun
<1> DEFINE a == Line("output", c)
           b == Line("done", c)
           t == T(p)
           o == O(p)
<1>5. a \in Replies /\ b \in Replies /\ a # b
  BY <1>3 DEF Line, Replies
<1>6. t = IF c \notin db.wait THEN <<>> ELSE IF p THEN <<a, b>> ELSE <<b>>
  <2>1. <<>> \o <<a, b>> = <<a, b>>
    BY <1>5
  <2>2. Append(<<>>, b) = <<b>>
    BY <1>5
  <2> QED
    BY <1>4, <2>1, <2>2 DEF ResultChunks
<1>7. <<>> \in Seq(Replies) /\ <<a, b>> \in Seq(Replies) /\ <<b>> \in Seq(Replies)
  <2> HIDE DEF a, b
  <2> QED
    BY <1>5
<1>8. Range(<<a, b>>) = {a, b} /\ Range(<<b>>) = {b} /\ Range(<<>>) = {}
  <2> HIDE DEF a, b
  <2> QED
    BY DEF Range
<1>9. \A B : Ordered(<<a, b>>, c, B)
  <2>1. 1 \in 1..2 /\ \A i \in 1..2 : i = 1 \/ i = 2
    OBVIOUS
  <2>2. Len(<<a, b>>) = 2 /\ <<a, b>>[1] = a /\ <<a, b>>[2] = b
    OBVIOUS
  <2> DEFINE u == <<a, b>>
  <2>3. \A i \in 1..Len(u) : u[i] = b => \E j \in 1..i : u[j] = a
    BY <1>5, <2>1, <2>2
  <2> QED
    BY <2>3 DEF Ordered
<1>10. \A B : Ordered(<<>>, c, B)
  BY DEF Ordered
<1> HIDE DEF T, O
<1>11. /\ t \in Seq(Replies) /\ Range(t) \subseteq {a, b} /\ (c \notin db.wait => t = <<>>)
       /\ p => \A B : Ordered(t, c, B)
  <2> HIDE DEF t, a, b
  <2> QED
    BY <1>6, <1>7, <1>8, <1>9, <1>10
<1>12. o \subseteq Cmd /\ (o = db.outs \/ (p /\ o = db.outs \cup {c}))
  BY <1>3 DEF O
<1> HIDE DEF t, o, a, b
<1>13. db' = [db EXCEPT !.agent = 0, !.outs = o, !.chunks = [db.chunks EXCEPT ![c] = t]]
  BY <1>1, <1>2 DEF ConsoleDbs, t, o
<1>14. [db.chunks EXCEPT ![c] = t] \in [Cmd -> Seq(Replies)]
  BY <1>3, <1>11
<1>15. /\ db' \in ConsoleDbs /\ db'.agent = 0 /\ db'.outs = o /\ db'.chunks = [db.chunks EXCEPT ![c] = t]
       /\ db'.sock = db.sock /\ db'.next = db.next /\ db'.pend = db.pend
       /\ db'.wait = db.wait /\ db'.rest = db.rest /\ db'.told = db.told
  BY <1>2, <1>12, <1>13, <1>14 DEF ConsoleDbs
<1>16. Resulted(db, db', c, t)
  BY <1>11, <1>12, <1>15 DEF Resulted, a, b
<1> HIDE DEF c
<1>17. ConsoleOK(f.lines, db')
  BY <1>2, <1>3, <1>16, ResultStep
<1> QED
  BY <1>1, <1>2, <1>17 DEF ConsoleInv

\* ConsoleReturn and a step that changes neither the page nor the server.
LEMMA SameKeeps == ConsoleInv /\ UNCHANGED <<f, db>> => ConsoleInv'
<1> SUFFICES ASSUME ConsoleInv, f' = f, db' = db PROVE ConsoleInv'
  OBVIOUS
<1> QED
  BY DEF ConsoleInv

\* A socket that was never opened.
LEMMA NoSockOK ==
  /\ NoSock \in Socks /\ NoSock.st = "none" /\ NoSock.srv = "none" /\ NoSock.cmd = 0 /\ NoSock.live = FALSE
  /\ NoSock.inn = <<>> /\ NoSock.out = <<>> /\ NoSock.sent = {}
<1>1. <<>> \in Seq(Cmd) /\ <<>> \in Seq(Replies)
  BY EmptyQueue
<1> QED
  BY <1>1 DEF NoSock, Socks

\* The console before anything happened on it.
LEMMA ConsoleStarts == ConsoleInit => ConsoleInv
<1> SUFFICES ASSUME f = ConsoleF, db = ConsoleDb PROVE ConsoleInv
  BY DEF ConsoleInit
<1>1. <<>> \in Seq(Cmd) /\ <<>> \in Seq(Replies) /\ <<>> \in Seq(Lines) /\ Range(<<>>) = {} /\ Once(<<>>)
  BY EmptyQueue
<1>2. /\ db.next = 1 /\ db.pend = <<>> /\ db.wait = {} /\ db.rest = 0 /\ db.agent = 0 /\ db.outs = {} /\ db.told = {}
      /\ db.sock = [s \in Sock |-> NoSock] /\ db.chunks = [c \in Cmd |-> <<>>]
  BY DEF ConsoleDb
<1>3. f \in ConsoleFs /\ f.lines = <<>>
  BY <1>1 DEF ConsoleF, ConsoleFs
<1>4. db \in ConsoleDbs
  <2>1. [s \in Sock |-> NoSock] \in [Sock -> Socks] /\ [c \in Cmd |-> <<>>] \in [Cmd -> Seq(Replies)]
    BY <1>1, NoSockOK
  <2>2. 1 \in 1..(MaxCmd + 1)
    BY ConsoleAssumption
  <2> HIDE DEF Sock, Cmd
  <2> QED
    BY <1>1, <2>1, <2>2 DEF ConsoleDb, ConsoleDbs
<1>5. \A s \in Sock : /\ db.sock[s].st = "none" /\ db.sock[s].srv = "none" /\ db.sock[s].cmd = 0 /\ db.sock[s].live = FALSE
                      /\ db.sock[s].inn = <<>> /\ db.sock[s].out = <<>> /\ db.sock[s].sent = {}
  BY <1>2, NoSockOK
<1>6. \A c \in Cmd : db.chunks[c] = <<>>
  BY <1>2
<1>7. AtWork(db) /\ Blank(db) /\ Owed(db)
  BY <1>5 DEF AtWork, Blank, Owed
<1>8. Waited(db)
  BY <1>1, <1>2, <1>5 DEF Waited
<1>9. Inboxes(db)
  BY <1>1, <1>2, <1>5, CmdType DEF Inboxes
<1>10. Silent(f.lines, db)
  BY <1>1, <1>2, <1>3, <1>5, <1>6 DEF Silent
<1>11. Told(f.lines, db)
  BY <1>2 DEF Told
<1> QED
  BY <1>1, <1>3, <1>4, <1>7, <1>8, <1>9, <1>10, <1>11 DEF ConsoleInv, ConsoleOK

\* What the invariant says to the analyst.
LEMMA ConsoleInvSays == ConsoleInv => QueuesBelong /\ ConsoleOutcome
<1> SUFFICES ASSUME ConsoleInv PROVE QueuesBelong /\ ConsoleOutcome
  OBVIOUS
<1>1. /\ f.lines \in Seq(Lines) /\ db \in ConsoleDbs /\ AtWork(db) /\ Waited(db) /\ Owed(db) /\ Told(f.lines, db)
  BY DEF ConsoleInv, ConsoleOK
<1>2. QueuesBelong
  BY <1>1 DEF QueuesBelong, Waited
<1>3. AnsweredBeforeIdle
  <2> SUFFICES ASSUME NEW s \in Sock, db.sock[s].st = "open", db.sock[s].srv = "recv",
                      db.sock[s].inn = <<>>, db.sock[s].out = <<>>, NEW c \in db.sock[s].sent
               PROVE  c \in db.told
    BY DEF AnsweredBeforeIdle
  <2>1. db.sock[s].cmd = 0
    BY <1>1 DEF AtWork
  <2>2. c \in Cmd /\ c # 0
    <3>1. db.sock[s] \in Socks
      BY <1>1, DbParts
    <3> QED
      BY <3>1, SockParts, CmdType
  <2>3. Answered(db.sock[s], db, c)
    BY <1>1 DEF Owed
  <2> QED
    BY <2>1, <2>2, <2>3, EmptyQueue DEF Answered
<1>4. OutputBeforeExit
  <2> SUFFICES ASSUME NEW i \in DOMAIN f.lines, NEW c \in db.outs, f.lines[i] = Line("done", c),
                      Contains(f.lines, Line("input", c))
               PROVE  \E j \in 1..i : f.lines[j] = Line("output", c)
    BY DEF OutputBeforeExit
  <2>1. i \in 1..Len(f.lines)
    BY <1>1, InRange
  <2>2. Line("input", c) \in Range(f.lines)
    BY DEF Contains, Range
  <2>3. Ordered(f.lines, c, {})
    BY <1>1, <2>2 DEF Told
  <2> QED
    BY <2>1, <2>3 DEF Ordered
<1> QED
  BY <1>2, <1>3, <1>4 DEF ConsoleOutcome

-----------------------------------------------------------------------------
(* Which steps a page can take.                                            *)

\* The steps of the pages of a processing job.
LEMMA JobUserPage == JobUser => page \in JobPages /\ page' \in JobPages
<1>1. CollectionEnds \/ PipelineRuns \/ PipelineEnds \/ TimelineMoves => page \in JobPages /\ page' = page
  BY DEF CollectionEnds, PipelineRuns, PipelineEnds, TimelineMoves, Moves, JobPages
<1>2. StatusPoll \/ LogPoll => page \in JobPages /\ page' = page
  BY DEF StatusPoll, LogPoll, OnPage, JobPages
<1>3. activateAnalytics \/ startProcessing \/ reprocess \/ handleCloseIncident => page \in JobPages /\ page' = page
  BY DEF activateAnalytics, startProcessing, reprocess, handleCloseIncident, ActivateShown, StageEnabled, StartShown,
         ReprocessShown, CloseShown, OnPage, Calls, JobPages
<1>4. SwitchPage => page \in JobPages /\ page' \in JobPages
  BY DEF SwitchPage, JobPages
<1> QED
  BY <1>1, <1>2, <1>3, <1>4 DEF JobUser

\* The steps of the search pages.
LEMMA SearchUserPage == SearchUser => page \in SearchPage /\ page' = page
<1>1. \A g : MovesTo(g) => page' = page
  BY DEF MovesTo
<1>2. \A g : Resets(g) => page' = page
  BY DEF Resets
<1>3. \A g, k, a : Calls(g, k, a) => page' = page
  BY DEF Calls
<1>4. \A g : Does(g) => page' = page
  BY DEF Does
<1>5. \A p \in SearchPage : OnPage(p) => page \in SearchPage
  BY DEF OnPage
<1>6. /\ "dashboard" \in SearchPage /\ "audit" \in SearchPage /\ "iocs" \in SearchPage /\ "sigma" \in SearchPage
      /\ "yara" \in SearchPage
  BY DEF SearchPage
<1>7. activeCard \/ clearFilter => page \in SearchPage /\ page' = page
  BY <1>1, <1>5, <1>6 DEF activeCard, clearFilter
<1>8. nextPage \/ prevPage => page \in SearchPage /\ page' = page
  BY <1>1, <1>5, <1>6 DEF nextPage, prevPage, HasPager, IncidentPager, AuditPager, IocPager, SigmaPager, YaraPager
<1>9. passSearch => page \in SearchPage /\ page' = page
  BY <1>2, <1>6 DEF passSearch
<1>10. AuditTick \/ AuditRefresh => page \in SearchPage /\ page' = page
  BY <1>5, <1>6 DEF AuditTick, AuditRefresh
<1>11. clearSelection \/ handleBulkClose => page \in SearchPage /\ page' = page
  BY <1>4, <1>5, <1>6 DEF clearSelection, handleBulkClose
<1>12. openImport \/ closeImport \/ handleBulkImport => page \in SearchPage /\ page' = page
  BY <1>3, <1>4, <1>5, <1>6 DEF openImport, closeImport, handleBulkImport
<1>13. SearchLeave \/ SearchReturn => page \in SearchPage /\ page' = page
  BY DEF SearchLeave, SearchReturn, Leaves
<1>14. \A v : statusSelect(v) \/ setActiveType(v) \/ setEventType(v) \/ setSeverity(v) => page \in SearchPage /\ page' = page
  BY <1>1, <1>2, <1>5, <1>6 DEF statusSelect, setActiveType, setEventType, setSeverity
<1>15. \A t : setIncidentSearch(t) \/ setTargetId(t) \/ setHitSearch(t) => page \in SearchPage /\ page' = page
  BY <1>1, <1>5, <1>6 DEF setIncidentSearch, setTargetId, setHitSearch
<1>16. \A r : toggleSelect(r) => page \in SearchPage /\ page' = page
  BY <1>4, <1>5, <1>6 DEF toggleSelect, OnIncident
<1>17. \A r, v : Elsewhere(r, v) => page \in SearchPage /\ page' = page
  BY DEF Elsewhere
<1> QED
  BY <1>7, <1>8, <1>9, <1>10, <1>11, <1>12, <1>13, <1>14, <1>15, <1>16, <1>17 DEF SearchUser

\* The steps of the timeline.
LEMMA TimelineUserPage == TimelineUser => page = "timeline" /\ page' = page
<1>1. \A g, k, a : Calls(g, k, a) => page' = page
  BY DEF Calls
<1>2. \A g : Turns(g) => page' = page
  BY DEF Turns
<1>3. OnTimeline => page = "timeline"
  BY DEF OnTimeline, OnPage
<1>4. NotesKnown => page = "timeline"
  BY <1>3 DEF NotesKnown
<1>5. StatusTick \/ BuildEnds \/ triggerBuild => page = "timeline" /\ page' = page
  BY <1>1, <1>3 DEF StatusTick, BuildEnds, triggerBuild, BuildShown
<1>6. toggleHost \/ searchRows \/ clearAll \/ turnPage => page = "timeline" /\ page' = page
  BY <1>2, <1>3 DEF toggleHost, searchRows, clearAll, turnPage
<1>7. handleExport \/ importBrowserAnnotations => page = "timeline" /\ page' = page
  BY <1>1, <1>3, <1>4 DEF handleExport, importBrowserAnnotations
<1>8. TimelineLeave \/ TimelineReturn => page = "timeline" /\ page' = page
  BY DEF TimelineLeave, TimelineReturn, Leaves
<1>9. \A r : toggleBookmark(r) \/ onRemoveBookmark(r) \/ Colleague(r) => page = "timeline" /\ page' = page
  BY <1>1, <1>4 DEF toggleBookmark, onRemoveBookmark, Colleague
<1> QED
  BY <1>5, <1>6, <1>7, <1>8, <1>9 DEF TimelineUser

\* The steps of the console.
LEMMA ConsoleStepPage ==
  ConsoleUser \/ (\E s \in Sock : ConsoleSocket(s)) => page = "console" /\ page' = page /\ net' = net
<1>1. \A g, d : Steps(g, d) \/ Happens(g, d) => page = "console" /\ page' = page /\ net' = net
  BY DEF Steps, Happens
<1>2. connect \/ disconnect \/ sendCommand \/ clearLines => page = "console" /\ page' = page /\ net' = net
  BY Zenon, <1>1 DEF connect, disconnect, sendCommand, clearLines
<1>3. ConsoleLeave \/ ConsoleReturn => page = "console" /\ page' = page /\ net' = net
  BY DEF ConsoleLeave, ConsoleReturn, OnConsole, OnPage
<1>4. RunSync \/ RunSyncEnds => page = "console" /\ page' = page /\ net' = net
  BY <1>1 DEF RunSync, RunSyncEnds
<1>5. PollCommand \/ PollLost \/ PostCommandResult \/ ResultLost => page = "console" /\ page' = page /\ net' = net
  BY <1>1 DEF PollCommand, PollLost, PostCommandResult, ResultLost
<1>6. \A s \in Sock : Opens(s) \/ Refused(s) \/ OnClose(s) \/ Drops(s) \/ OnMessage(s)
        => page = "console" /\ page' = page /\ net' = net
  BY <1>1 DEF Opens, Refused, OnClose, Drops, OnMessage
<1>7. \A s \in Sock : Receives(s) \/ Refuses(s) \/ RecvEnds(s) \/ Tells(s) \/ Raises(s) \/ Passes(s) \/ TimesOut(s)
        => page = "console" /\ page' = page /\ net' = net
  BY Zenon, <1>1 DEF Receives, Refuses, RecvEnds, Tells, Raises, Passes, TimesOut
<1> QED
  BY <1>2, <1>3, <1>4, <1>5, <1>6, <1>7 DEF ConsoleUser, ConsoleSocket

\* What each page asks the server for.
JobKinds      == {"status", "incident", "logs", "trigger", "close"}
SearchKinds   == {"rows", "bulk", "import"}
TimelineKinds == {"list", "tlstatus", "tlrows", "build", "export", "note", "unnote", "send"}
Waiting(c, K) == net[c].st # "idle" /\ net[c].kind \in K

\* A step of a call needs a call in flight, of a kind of its page.
LEMMA CallPage ==
  ASSUME NEW c \in Slot
  PROVE  /\ JobServed(c) \/ JobContinued(c) => Waiting(c, JobKinds) /\ page' = page
         /\ SearchServed(c) \/ SearchContinued(c) => Waiting(c, SearchKinds) /\ page' = page
         /\ TimelineServed(c) \/ TimelineContinued(c) => Waiting(c, TimelineKinds) /\ page' = page
         /\ ServeList(c) \/ FetchAgain(c) \/ Outage(c) => Waiting(c, {"list"}) /\ page' = page
         /\ Retries(c) \/ Breaks(c) \/ Unserved(c) => net[c].st # "idle" /\ page' = page
<1>1. \A k : Asked(c, k) \/ Resolved(c, k) \/ Rejected(c, k) => net[c].st # "idle" /\ net[c].kind = k
  BY DEF Asked, Resolved, Rejected
<1>2. \A g, n : Then(c, g, n) => page' = page
  BY DEF Then
<1>3. JobServed(c) => Waiting(c, JobKinds) /\ page' = page
  BY <1>1 DEF JobServed, ServeStatus, ServeIncident, ServeLogs, ServeTrigger, TriggerUnqueued, ServeClose, Answers, Waiting, JobKinds
<1>4. JobContinued(c) => Waiting(c, JobKinds) /\ page' = page
  <2>1. \A e : Sees(c, e) => page' = page
    BY DEF Sees
  <2>2. StatusArrives(c) \/ StatusAbsent(c) \/ StatusAgain(c) \/ StatusFails(c) => Waiting(c, JobKinds) /\ page' = page
    BY <1>1, <2>1 DEF StatusArrives, StatusAbsent, StatusAgain, StatusFails, Absent, Waiting, JobKinds
  <2>3. IncidentArrives(c) \/ IncidentFails(c) \/ LogsArrive(c) \/ LogsFail(c) => Waiting(c, JobKinds) /\ page' = page
    BY <1>1, <1>2 DEF IncidentArrives, IncidentFails, LogsArrive, LogsFail, Waiting, JobKinds
  <2>4. ProcessingStarted(c) \/ ProcessingStartFails(c) => Waiting(c, JobKinds) /\ page' = page
    BY <1>1, <1>2 DEF ProcessingStarted, ProcessingStartFails, Waiting, JobKinds
  <2>5. IncidentClosed(c) \/ CloseFails(c) => Waiting(c, JobKinds) /\ page' = page
    BY <1>1, <1>2 DEF IncidentClosed, CloseFails, Waiting, JobKinds
  <2> QED
    BY <2>2, <2>3, <2>4, <2>5 DEF JobContinued
<1>5. SearchServed(c) => Waiting(c, SearchKinds) /\ page' = page
  BY <1>1 DEF SearchServed, ServeRows, ServeBulk, ServeImport, Waiting, SearchKinds
<1>6. SearchContinued(c) => Waiting(c, SearchKinds) /\ page' = page
  <2>1. RowsArrive(c) \/ RowsAgain(c) \/ RowsFail(c) => Waiting(c, SearchKinds) /\ page' = page
    BY <1>1 DEF RowsArrive, RowsAgain, RowsFail, Waiting, SearchKinds
  <2>2. PatchDone(c) \/ BulkClosed(c) \/ BulkFails(c) => Waiting(c, SearchKinds) /\ page' = page
    BY <1>1, <1>2 DEF PatchDone, BulkClosed, BulkFails, Waiting, SearchKinds
  <2>3. Imported(c) \/ ImportFails(c) => Waiting(c, SearchKinds) /\ page' = page
    BY <1>1, <1>2 DEF Imported, ImportFails, Waiting, SearchKinds
  <2> QED
    BY <2>1, <2>2, <2>3 DEF SearchContinued
<1>7. TimelineServed(c) => Waiting(c, TimelineKinds) /\ page' = page
  BY <1>1 DEF TimelineServed, ServeTlStatus, ServeTlRows, ServeBuild, RefuseBuild, ServeExport, ServeNote, Waiting, TimelineKinds
<1>8. TimelineContinued(c) => Waiting(c, TimelineKinds) /\ page' = page
  <2>1. \A g : Notes(c, g) => page' = page
    BY DEF Notes
  <2>2. TlStatusArrives(c) \/ TlStatusFails(c) \/ TlRowsArrive(c) \/ TlRowsFail(c) => Waiting(c, TimelineKinds) /\ page' = page
    BY <1>1, <1>2 DEF TlStatusArrives, TlStatusFails, TlRowsArrive, TlRowsFail, Waiting, TimelineKinds
  <2>3. BuildBegun(c) \/ BuildRefused(c) \/ ExportEnds(c) => Waiting(c, TimelineKinds) /\ page' = page
    BY <1>1, <1>2 DEF BuildBegun, BuildRefused, ExportEnds, Waiting, TimelineKinds
  <2>4. NotesArrive(c) \/ NotesFail(c) => Waiting(c, TimelineKinds) /\ page' = page
    BY <1>1 DEF NotesArrive, NotesFail, LastFetch, Waiting, TimelineKinds
  <2>5. NoteSaved(c) \/ NoteFails(c) => Waiting(c, TimelineKinds) /\ page' = page
    BY <1>1, <1>2, <2>1 DEF NoteSaved, NoteFails, Waiting, TimelineKinds
  <2>6. ImportNext(c) \/ ImportEnds(c) \/ ImportBreaks(c) => Waiting(c, TimelineKinds) /\ page' = page
    BY <1>1, <1>2, <2>1 DEF ImportNext, ImportEnds, ImportBreaks, Waiting, TimelineKinds
  <2> QED
    BY <2>2, <2>3, <2>4, <2>5, <2>6 DEF TimelineContinued
<1>9. ServeList(c) \/ FetchAgain(c) \/ Outage(c) => Waiting(c, {"list"}) /\ page' = page
  BY <1>1 DEF ServeList, FetchAgain, Outage, Waiting
<1>10. Retries(c) \/ Breaks(c) \/ Unserved(c) => net[c].st # "idle" /\ page' = page
  BY DEF Retries, Breaks, Unserved, Again, Lose, TimeOut
<1> QED
  BY <1>3, <1>4, <1>5, <1>6, <1>7, <1>8, <1>9, <1>10

\* A page is not left for one of another kind.
LEMMA PageStays == [IncidentNext]_frame => page' = page \/ (page \in JobPages /\ page' \in JobPages)
<1>1. ASSUME NEW c \in Slot,
             \/ ServeList(c) \/ JobServed(c) \/ SearchServed(c) \/ TimelineServed(c)
             \/ JobContinued(c) \/ SearchContinued(c) \/ TimelineContinued(c)
             \/ FetchAgain(c) \/ Retries(c) \/ Breaks(c) \/ Unserved(c) \/ Outage(c)
      PROVE  page' = page
  BY <1>1, CallPage
<1> QED
  BY <1>1, JobUserPage, SearchUserPage, TimelineUserPage, ConsoleStepPage DEF IncidentNext, frame

\* No page but the console's own steps move it, and they keep its invariant.
Quiet == net = [c \in Slot |-> NoCall]

\* ConsoleInv is inductive on the console page: only its own steps happen there.
LEMMA ConsoleNext == page = "console" /\ Quiet /\ ConsoleInv /\ [IncidentNext]_frame => Quiet' /\ ConsoleInv'
<1> SUFFICES ASSUME page = "console", Quiet, ConsoleInv, [IncidentNext]_frame PROVE Quiet' /\ ConsoleInv'
  OBVIOUS
<1>1. page \notin JobPages /\ page \notin SearchPage /\ page # "timeline"
  BY DEF JobPages, SearchPage
<1>2. \A c \in Slot : net[c].st = "idle"
  BY DEF Quiet, NoCall
<1>3. \A c \in Slot : ~(\/ ServeList(c) \/ JobServed(c) \/ SearchServed(c) \/ TimelineServed(c)
                        \/ JobContinued(c) \/ SearchContinued(c) \/ TimelineContinued(c)
                        \/ FetchAgain(c) \/ Retries(c) \/ Breaks(c) \/ Unserved(c) \/ Outage(c))
  BY <1>2, CallPage DEF Waiting
<1>4. ~JobUser /\ ~SearchUser /\ ~TimelineUser
  BY <1>1, JobUserPage, SearchUserPage, TimelineUserPage
<1>5. CASE ConsoleUser
  <2>1. ConsoleReturn => ConsoleInv'
    BY SameKeeps DEF ConsoleReturn
  <2>2. ConsoleInv'
    BY <1>5, <2>1, ConnectKeeps, DisconnectKeeps, SendKeeps, ClearKeeps, ConsoleLeaveKeeps, RunSyncKeeps, PollKeeps, ResultKeeps
       DEF ConsoleUser
  <2> QED
    BY <1>5, <2>2, ConsoleStepPage DEF Quiet
<1>6. ASSUME NEW s \in Sock, ConsoleSocket(s) PROVE Quiet' /\ ConsoleInv'
  <2>1. ConsoleInv'
    BY <1>6, OpensKeeps, DropsKeeps, OnCloseKeeps, OnMessageKeeps, ReceivesKeeps, RefusesKeeps, RecvEndsKeeps, TellsKeeps,
       RaisesKeeps, PassesKeeps, TimesOutKeeps DEF ConsoleSocket
  <2> QED
    BY <1>6, <2>1, ConsoleStepPage DEF Quiet
<1>7. CASE UNCHANGED frame
  BY <1>7, SameKeeps DEF frame, Quiet
<1> QED
  BY <1>3, <1>4, <1>5, <1>6, <1>7 DEF IncidentNext

\* On the console ConsoleInv holds, and no call is in flight.
ConsolePage == page = "console" => Quiet /\ ConsoleInv

\* It holds in every state in which the console is the page.
LEMMA ConsolePageHolds == IncidentSpec => []ConsolePage
<1>1. IncidentInit => ConsolePage
  <2> SUFFICES ASSUME IncidentInit, page = "console" PROVE Quiet /\ ConsoleInv
    BY DEF ConsolePage
  <2>1. ConsoleInit
    BY DEF IncidentInit, JobInit, SearchInit, TimelineInit, JobPages, SearchPage
  <2> QED
    BY <2>1, ConsoleStarts DEF ConsoleInit, Quiet
<1>2. ConsolePage /\ [IncidentNext]_frame => ConsolePage'
  <2> SUFFICES ASSUME ConsolePage, [IncidentNext]_frame, page' = "console" PROVE Quiet' /\ ConsoleInv'
    BY DEF ConsolePage
  <2>1. page = "console"
    BY PageStays DEF JobPages
  <2> QED
    BY <2>1, ConsoleNext DEF ConsolePage
<1> QED
  BY <1>1, <1>2, PTL DEF IncidentSpec

\* agent_commands.py: whatever breaks, a command can be taken by the agent only
\* while its handler, or POST /run, waits for it, and no queue is left behind;
\* for any number of sockets, commands and events.
THEOREM QueuesBelongHolds == IncidentSpec => []QueuesBelong
<1>1. ConsolePage => QueuesBelong
  BY ConsoleInvSays DEF ConsolePage, QueuesBelong
<1> QED
  BY <1>1, ConsolePageHolds, PTL

\* AgentConsole.tsx and analyst_ws: a connection that is idle owes no answer,
\* and no exit code is shown before the output of its command, whichever of
\* several sockets brings them; for any number of sockets and commands.
THEOREM ConsoleOutcomeHolds == IncidentSpec => []ConsoleOutcome
<1>1. ConsolePage => ConsoleOutcome
  <2>1. page # "console" => ConsoleOutcome
    BY DEF ConsoleOutcome, AnsweredBeforeIdle, OutputBeforeExit, OnConsole, OnPage
  <2> QED
    BY <2>1, ConsoleInvSays DEF ConsolePage
<1> QED
  BY <1>1, ConsolePageHolds, PTL

-----------------------------------------------------------------------------
(* Calls in flight.                                                        *)

\* The calls of some kinds, with their arguments and what those that succeeded
\* have brought.
CallsOf(K, A, R) ==
  {n \in [st : {"sent", "answered", "broken"}, kind : K, arg : A, try : 1..2, ok : BOOLEAN,
          res : R \cup {Nothing, "absent"}, live : BOOLEAN] : n.st = "answered" /\ n.ok => n.res \in R}

\* The parts of a call.
LEMMA CallParts ==
  ASSUME NEW K, NEW A, NEW R, NEW n
  PROVE  n \in CallsOf(K, A, R) <=>
           /\ n \in [st : {"sent", "answered", "broken"}, kind : K, arg : A, try : 1..2, ok : BOOLEAN,
                     res : R \cup {Nothing, "absent"}, live : BOOLEAN]
           /\ n.st = "answered" /\ n.ok => n.res \in R
BY DEF CallsOf

\* A slot without a call, and a new one.
LEMMA NoCallIs == NoCall.st = "idle" /\ NoCall.kind = "none" /\ ~NoCall.live
BY DEF NoCall

\* The fields of a new call, and its type.
LEMMA NewCallIs ==
  ASSUME NEW k, NEW a, NEW l \in BOOLEAN
  PROVE  /\ NewCall(k, a, l).st = "sent" /\ NewCall(k, a, l).kind = k /\ NewCall(k, a, l).arg = a
         /\ ~NewCall(k, a, l).ok /\ NewCall(k, a, l).live = l
         /\ \A K, A, R : k \in K /\ a \in A => NewCall(k, a, l) \in CallsOf(K, A, R)
<1> DEFINE n1 == [NoCall EXCEPT !.st = "sent"]
           n2 == [n1 EXCEPT !.kind = k]
           n3 == [n2 EXCEPT !.arg = a]
           n4 == [n3 EXCEPT !.try = 1]
           n == [n4 EXCEPT !.live = l]
<1>1. NewCall(k, a, l) = n
  BY DEF NewCall
<1>2. /\ n1 \in [st : {"sent"}, kind : {"none"}, arg : {Nothing}, try : {0}, ok : BOOLEAN, res : {Nothing}, live : BOOLEAN]
      /\ ~n1.ok
  BY DEF NoCall
<1> HIDE DEF n1
<1>3. n2 \in [st : {"sent"}, kind : {k}, arg : {Nothing}, try : {0}, ok : BOOLEAN, res : {Nothing}, live : BOOLEAN] /\ ~n2.ok
  BY <1>2
<1> HIDE DEF n2
<1>4. n3 \in [st : {"sent"}, kind : {k}, arg : {a}, try : {0}, ok : BOOLEAN, res : {Nothing}, live : BOOLEAN] /\ ~n3.ok
  BY <1>3
<1> HIDE DEF n3
<1>5. n4 \in [st : {"sent"}, kind : {k}, arg : {a}, try : {1}, ok : BOOLEAN, res : {Nothing}, live : BOOLEAN] /\ ~n4.ok
  BY <1>4
<1> HIDE DEF n4
<1>6. /\ n \in [st : {"sent"}, kind : {k}, arg : {a}, try : {1}, ok : BOOLEAN, res : {Nothing}, live : BOOLEAN]
      /\ ~n.ok /\ n.live = l
  BY <1>5
<1> HIDE DEF n
<1>7. n.st = "sent" /\ n.kind = k /\ n.arg = a /\ ~n.ok /\ n.live = l
  BY <1>6
<1>8. ASSUME NEW K, NEW A, NEW R, k \in K, a \in A PROVE n \in CallsOf(K, A, R)
  <2>1. n \in [st : {"sent", "answered", "broken"}, kind : K, arg : A, try : 1..2, ok : BOOLEAN,
               res : R \cup {Nothing, "absent"}, live : BOOLEAN]
    BY <1>6, <1>8
  <2>2. n.st # "answered"
    BY <1>7
  <2> QED
    BY <2>1, <2>2, CallParts
<1> QED
  BY <1>1, <1>7, <1>8

\* A call whose page is there.
Sent(k, a)    == NewCall(k, a, TRUE)
Adds(n, k, a) == With(n, k, a, TRUE)

\* Its fields and its type.
LEMMA HeldCallIs ==
  ASSUME NEW k, NEW a
  PROVE  /\ Sent(k, a).st = "sent" /\ Sent(k, a).kind = k /\ Sent(k, a).arg = a
         /\ ~Sent(k, a).ok /\ Sent(k, a).live
         /\ \A K, A, R : k \in K /\ a \in A => Sent(k, a) \in CallsOf(K, A, R)
<1> DEFINE n1 == [NoCall EXCEPT !.st = "sent"]
           n2 == [n1 EXCEPT !.kind = k]
           n3 == [n2 EXCEPT !.arg = a]
           n4 == [n3 EXCEPT !.try = 1]
           n == [n4 EXCEPT !.live = TRUE]
<1>1. Sent(k, a) = n
  BY DEF Sent, NewCall
<1>2. /\ n1 \in [st : {"sent"}, kind : {"none"}, arg : {Nothing}, try : {0}, ok : BOOLEAN, res : {Nothing}, live : BOOLEAN]
      /\ ~n1.ok
  BY DEF NoCall
<1> HIDE DEF n1
<1>3. n2 \in [st : {"sent"}, kind : {k}, arg : {Nothing}, try : {0}, ok : BOOLEAN, res : {Nothing}, live : BOOLEAN] /\ ~n2.ok
  BY <1>2
<1> HIDE DEF n2
<1>4. n3 \in [st : {"sent"}, kind : {k}, arg : {a}, try : {0}, ok : BOOLEAN, res : {Nothing}, live : BOOLEAN] /\ ~n3.ok
  BY <1>3
<1> HIDE DEF n3
<1>5. n4 \in [st : {"sent"}, kind : {k}, arg : {a}, try : {1}, ok : BOOLEAN, res : {Nothing}, live : BOOLEAN] /\ ~n4.ok
  BY <1>4
<1> HIDE DEF n4
<1>6. /\ n \in [st : {"sent"}, kind : {k}, arg : {a}, try : {1}, ok : BOOLEAN, res : {Nothing}, live : BOOLEAN]
      /\ ~n.ok /\ n.live
  BY <1>5
<1> HIDE DEF n
<1>7. n.st = "sent" /\ n.kind = k /\ n.arg = a /\ ~n.ok /\ n.live
  BY <1>6
<1>8. ASSUME NEW K, NEW A, NEW R, k \in K, a \in A PROVE n \in CallsOf(K, A, R)
  <2>1. n \in [st : {"sent", "answered", "broken"}, kind : K, arg : A, try : 1..2, ok : BOOLEAN,
               res : R \cup {Nothing, "absent"}, live : BOOLEAN]
    BY <1>6, <1>8
  <2>2. n.st # "answered"
    BY <1>7
  <2> QED
    BY <2>1, <2>2, CallParts
<1> QED
  BY <1>1, <1>7, <1>8

\* What happens to a call on its way: an answer, a second attempt, an end, and
\* its page that goes away.
LEMMA CallMoves ==
  ASSUME NEW K, NEW A, NEW R, NEW n \in CallsOf(K, A, R)
  PROVE  /\ \A ok \in BOOLEAN, r \in R \cup {Nothing, "absent"} : (ok => r \in R) =>
              [n EXCEPT !.st = "answered", !.ok = ok, !.res = r] \in CallsOf(K, A, R)
         /\ n.try < 2 => [n EXCEPT !.st = "sent", !.try = @ + 1, !.res = Nothing] \in CallsOf(K, A, R)
         /\ n.try < 2 => [n EXCEPT !.st = "sent", !.try = @ + 1, !.ok = FALSE, !.res = Nothing] \in CallsOf(K, A, R)
         /\ [n EXCEPT !.st = "broken", !.ok = FALSE, !.res = Nothing] \in CallsOf(K, A, R)
         /\ [n EXCEPT !.live = FALSE] \in CallsOf(K, A, R)
<1>1. /\ n \in [st : {"sent", "answered", "broken"}, kind : K, arg : A, try : 1..2, ok : BOOLEAN,
                res : R \cup {Nothing, "absent"}, live : BOOLEAN]
      /\ n.st = "answered" /\ n.ok => n.res \in R
  BY DEF CallsOf
<1>2. ASSUME NEW ok \in BOOLEAN, NEW r \in R \cup {Nothing, "absent"}, ok => r \in R
      PROVE  [n EXCEPT !.st = "answered", !.ok = ok, !.res = r] \in CallsOf(K, A, R)
  BY <1>1, <1>2 DEF CallsOf
<1>3. ASSUME n.try < 2 PROVE [n EXCEPT !.st = "sent", !.try = @ + 1, !.res = Nothing] \in CallsOf(K, A, R)
  <2> DEFINE t == n.try + 1
  <2>1. t \in 1..2
    BY <1>1, <1>3
  <2> HIDE DEF t
  <2>2. [n EXCEPT !.st = "sent", !.try = t, !.res = Nothing] \in CallsOf(K, A, R)
    BY <1>1, <2>1 DEF CallsOf
  <2>3. [n EXCEPT !.st = "sent", !.try = n.try + 1, !.res = Nothing] \in CallsOf(K, A, R)
    BY Zenon, <2>2 DEF t
  <2> QED
    BY <1>1, <2>3
<1>4. ASSUME n.try < 2 PROVE [n EXCEPT !.st = "sent", !.try = @ + 1, !.ok = FALSE, !.res = Nothing] \in CallsOf(K, A, R)
  <2> DEFINE t == n.try + 1
  <2>1. t \in 1..2
    BY <1>1, <1>4
  <2> HIDE DEF t
  <2>2. [n EXCEPT !.st = "sent", !.try = t, !.ok = FALSE, !.res = Nothing] \in CallsOf(K, A, R)
    BY <1>1, <2>1 DEF CallsOf
  <2>3. [n EXCEPT !.st = "sent", !.try = n.try + 1, !.ok = FALSE, !.res = Nothing] \in CallsOf(K, A, R)
    BY Zenon, <2>2 DEF t
  <2> QED
    BY <1>1, <2>3
<1>5. [n EXCEPT !.st = "broken", !.ok = FALSE, !.res = Nothing] \in CallsOf(K, A, R)
  BY <1>1 DEF CallsOf
<1>6. [n EXCEPT !.live = FALSE] \in CallsOf(K, A, R)
  BY <1>1 DEF CallsOf
<1> QED
  BY <1>2, <1>3, <1>4, <1>5, <1>6

\* A new call takes the first free slot, if there is one.
LEMMA Placed ==
  ASSUME NEW n, DOMAIN n = Slot, n = [c \in Slot |-> n[c]], NEW k, NEW a, FreeIn(n) # {}
  PROVE  \E s \in Slot : /\ n[s].st = "idle" /\ Adds(n, k, a)[s] = Sent(k, a)
                         /\ \A c \in Slot : c # s => Adds(n, k, a)[c] = n[c]
<1> DEFINE s == Least(FreeIn(n))
           m == Adds(n, k, a)
<1>1. m = [n EXCEPT ![s] = Sent(k, a)]
  BY DEF Adds, With, Sent
<1> HIDE DEF s
<1>2. FreeIn(n) \subseteq Nat
  <2> DEFINE last == Cardinality(Slot)
  <2>1. Slot = 1..last /\ last \in Nat
    BY CallsAssumption, FS_CardinalityType
  <2> HIDE DEF last
  <2> QED
    BY <2>1 DEF FreeIn
<1>3. \E x \in FreeIn(n) : \A y \in FreeIn(n) : x <= y
  BY <1>2, LeastNatural
<1>4. s \in FreeIn(n)
  BY <1>3 DEF Least, s
<1>5. s \in Slot /\ n[s].st = "idle"
  BY <1>4 DEF FreeIn
<1> HIDE DEF m
<1>6. m[s] = Sent(k, a) /\ \A c \in Slot : c # s => m[c] = n[c]
  BY <1>1, <1>5
<1> QED
  BY <1>5, <1>6 DEF m

\* What room means.
LEMMA RoomIs ==
  /\ \A n : Cardinality(FreeIn(n)) >= 1 => FreeIn(n) # {}
  /\ \A n : Cardinality(FreeIn(n)) >= 2 => \E x, y \in FreeIn(n) : x # y
<1> SUFFICES ASSUME NEW n
             PROVE  /\ Cardinality(FreeIn(n)) >= 1 => FreeIn(n) # {}
                    /\ Cardinality(FreeIn(n)) >= 2 => \E x, y \in FreeIn(n) : x # y
  OBVIOUS
<1> DEFINE F == FreeIn(n)
<1>1. IsFiniteSet(F) /\ Cardinality(F) \in Nat
  <2>1. F \in SUBSET Slot
    BY DEF FreeIn
  <2>2. IsFiniteSet(F)
    BY <2>1, CallsAssumption, FS_Subset
  <2> QED
    BY <2>2, FS_CardinalityType
<1> HIDE DEF F
<1>2. F = {} => Cardinality(F) = 0
  BY FS_EmptySet
<1>3. ASSUME Cardinality(F) >= 2 PROVE \E x, y \in F : x # y
  <2>1. PICK x \in F : TRUE
    BY <1>1, <1>2, <1>3
  <2>2. IsFiniteSet(F \ {x}) /\ Cardinality(F \ {x}) = Cardinality(F) - 1
    BY <1>1, <2>1, FS_RemoveElement
  <2>3. F \ {x} # {}
    BY <1>1, <1>3, <2>2, FS_EmptySet
  <2> QED
    BY <2>1, <2>3
<1> QED
  BY <1>1, <1>2, <1>3 DEF F

\* A call that settled leaves its slot.
LEMMA Leaving ==
  ASSUME NEW S, NEW n \in [Slot -> S], NoCall \in S, NEW c \in Slot
  PROVE  /\ Without(n, c) \in [Slot -> S] /\ Without(n, c)[c] = NoCall
         /\ \A b \in Slot : b # c => Without(n, c)[b] = n[b]
         /\ c \in FreeIn(Without(n, c))
BY NoCallIs DEF Without, FreeIn

\* What the network does to a call.
Moved(m, k) ==
  \/ k = [m EXCEPT !.st = "answered", !.ok = FALSE, !.res = Nothing]
  \/ m.try < 2 /\ k = [m EXCEPT !.st = "sent", !.try = @ + 1, !.res = Nothing]
  \/ m.try < 2 /\ k = [m EXCEPT !.st = "sent", !.try = @ + 1, !.ok = FALSE, !.res = Nothing]
  \/ k = [m EXCEPT !.st = "broken", !.ok = FALSE, !.res = Nothing]

\* It stays the call it was, without an answer.
LEMMA MovedCall ==
  ASSUME NEW K, NEW A, NEW R, NEW m \in CallsOf(K, A, R), NEW k, Moved(m, k)
  PROVE  /\ k \in CallsOf(K, A, R) /\ k.kind = m.kind /\ k.arg = m.arg /\ k.live = m.live
         /\ k.st # "idle" /\ ~(k.st = "answered" /\ k.ok)
<1>1. /\ m \in [st : {"sent", "answered", "broken"}, kind : K, arg : A, try : 1..2, ok : BOOLEAN,
                res : R \cup {Nothing, "absent"}, live : BOOLEAN]
  BY DEF CallsOf
<1>2. CASE k = [m EXCEPT !.st = "answered", !.ok = FALSE, !.res = Nothing]
  <2>1. k \in CallsOf(K, A, R)
    BY Zenon, <1>2, CallMoves
  <2> QED
    BY <1>1, <1>2, <2>1
<1>3. CASE m.try < 2 /\ k = [m EXCEPT !.st = "sent", !.try = @ + 1, !.res = Nothing]
  <2>1. k \in CallsOf(K, A, R)
    BY Zenon, <1>3, CallMoves
  <2> QED
    BY <1>1, <1>3, <2>1
<1>4. CASE m.try < 2 /\ k = [m EXCEPT !.st = "sent", !.try = @ + 1, !.ok = FALSE, !.res = Nothing]
  <2>1. k \in CallsOf(K, A, R)
    BY Zenon, <1>4, CallMoves
  <2> QED
    BY <1>1, <1>4, <2>1
<1>5. CASE k = [m EXCEPT !.st = "broken", !.ok = FALSE, !.res = Nothing]
  <2>1. k \in CallsOf(K, A, R)
    BY Zenon, <1>5, CallMoves
  <2> QED
    BY <1>1, <1>5, <2>1
<1> QED
  BY <1>2, <1>3, <1>4, <1>5 DEF Moved

\* An answer, and what the network does, as changes of one slot.
LEMMA OneSlot ==
  ASSUME NEW c \in Slot, DOMAIN net = Slot
  PROVE  /\ \A ok, r : Serve(c, ok, r) => net' = [net EXCEPT ![c] = [net[c] EXCEPT !.st = "answered", !.ok = ok, !.res = r]]
         /\ Retries(c) \/ Breaks(c) \/ Unserved(c) =>
              /\ net[c].st # "idle" /\ UNCHANGED <<page, mounted, f, q, db>>
              /\ \E k : Moved(net[c], k) /\ net' = [net EXCEPT ![c] = k]
<1> DEFINE m == net[c]
<1>1. ASSUME NEW ok, NEW r, Serve(c, ok, r)
      PROVE  net' = [net EXCEPT ![c] = [m EXCEPT !.st = "answered", !.ok = ok, !.res = r]]
  BY <1>1 DEF Serve
<1>2. ASSUME Retries(c)
      PROVE  /\ m.st # "idle" /\ UNCHANGED <<page, mounted, f, q, db>>
             /\ m.try < 2 /\ net' = [net EXCEPT ![c] = [m EXCEPT !.st = "sent", !.try = @ + 1, !.res = Nothing]]
  BY <1>2 DEF Retries, Again, MAX_RETRIES
<1>3. ASSUME Lose(c)
      PROVE  /\ m.st # "idle"
             /\ \/ m.try < 2 /\ net' = [net EXCEPT ![c] = [m EXCEPT !.st = "sent", !.try = @ + 1, !.ok = FALSE, !.res = Nothing]]
                \/ net' = [net EXCEPT ![c] = [m EXCEPT !.st = "broken", !.ok = FALSE, !.res = Nothing]]
  <2>1. CASE m.try < 2
    BY <1>3, <2>1 DEF Lose, MAX_RETRIES
  <2>2. CASE ~(m.try < 2)
    BY <1>3, <2>2 DEF Lose, MAX_RETRIES
  <2> QED
    BY <2>1, <2>2
<1>4. ASSUME TimeOut(c)
      PROVE  m.st # "idle" /\ net' = [net EXCEPT ![c] = [m EXCEPT !.st = "broken", !.ok = FALSE, !.res = Nothing]]
  BY <1>4 DEF TimeOut
<1>5. ASSUME Unserved(c)
      PROVE  /\ m.st # "idle" /\ UNCHANGED <<page, mounted, f, q, db>>
             /\ net' = [net EXCEPT ![c] = [m EXCEPT !.st = "answered", !.ok = FALSE, !.res = Nothing]]
  <2>1. m.st = "sent" /\ Serve(c, FALSE, Nothing) /\ UNCHANGED <<page, mounted, f, q, db>>
    BY <1>5 DEF Unserved
  <2> QED
    BY <1>1, <2>1
<1>6. Breaks(c) => (Lose(c) \/ TimeOut(c)) /\ UNCHANGED <<page, mounted, f, q, db>>
  BY DEF Breaks
<1> HIDE DEF m
<1>7. ASSUME Retries(c) \/ Breaks(c) \/ Unserved(c)
      PROVE  /\ m.st # "idle" /\ UNCHANGED <<page, mounted, f, q, db>>
             /\ \E k : Moved(m, k) /\ net' = [net EXCEPT ![c] = k]
  BY <1>2, <1>3, <1>4, <1>5, <1>6, <1>7 DEF Moved
<1> QED
  BY <1>1, <1>7 DEF m

-----------------------------------------------------------------------------
(* The pages of a processing job.                                          *)

Procs   == {"PENDING", "RUNNING"} \cup Finished
JobRows == [inc : {"collecting", "complete", "closed"}, proc : {"none"} \cup Procs, tl : {"none", "BUILDING", "DONE"}, logs : Nat]
JobDbs  == [ver : Nat, rows : JobRows]
JobQs   == {e \in [have : BOOLEAN, ver : Nat, rows : {Nothing, "null"} \cup Procs, err : BOOLEAN, inv : BOOLEAN] :
              e.have => e.rows \in {"null"} \cup Procs}
JobFs   == [inc : {"unknown", "collecting", "complete", "closed"}, tl : {"none", "BUILDING", "DONE"}, closing : BOOLEAN,
            starting : {"no", "post", "reload"}, stat : {"idle", "fly"}, log : {"idle", "fly"}, era : Nat,
            lines : Seq(Nat), last : Nat]
JobResults  == [ver : Nat, rows : JobRows, new : {None}]
StatusCalls == CallsOf({"status"}, [row : JobPages, val : {"first", "again"}], {r \in JobResults : r.rows.proc # "none"})
LogCalls    == CallsOf({"logs"}, [since : Nat, era : Nat], [from : Nat, to : Nat])
OtherCalls  == CallsOf({"incident"}, {Nothing}, JobResults) \cup CallsOf({"trigger"}, {"plain", "force"}, {Nothing})
               \cup CallsOf({"close"}, {Nothing}, {Nothing})
JobCalls    == {NoCall} \cup StatusCalls \cup LogCalls \cup OtherCalls

\* One fetch of the status at a time, and what it brings is not older than
\* what is shown.
StatusOnce(e, d, n) ==
  /\ e.ver <= d.ver
  /\ \A c \in Slot : n[c].kind = "status" =>
       /\ n[c].st = "answered" /\ n[c].ok => e.ver <= n[c].res.ver /\ n[c].res.ver <= d.ver
       /\ \A b \in Slot : n[b].kind = "status" => b = c

\* Until polling was switched off once, there is one poll of the log at a time,
\* for the lines behind the last one shown.
Increasing(t)   == \A i, j \in 1..Len(t) : i < j => t[i] < t[j]
LogsOnce(g, n) ==
  g.era = 0 =>
    /\ Increasing(g.lines) /\ \A i \in 1..Len(g.lines) : g.lines[i] <= g.last
    /\ \A c \in Slot : n[c].kind = "logs" =>
         /\ g.log = "fly" /\ n[c].arg.since = g.last /\ n[c].arg.era = 0
         /\ n[c].st = "answered" /\ n[c].ok => n[c].res.from = g.last + 1
         /\ \A b \in Slot : n[b].kind = "logs" => b = c

\* Whoever waits, waits for a call in flight.
Flying(n, k) == \E c \in Slot : n[c].kind = k
Held(n, k)   == \E c \in Slot : n[c].kind = k /\ n[c].live
Alive(g, n) ==
  /\ g.stat = "fly" \/ g.starting = "reload" => Flying(n, "status")
  /\ g.log = "fly" => \E c \in Slot : n[c].kind = "logs" /\ n[c].live /\ n[c].arg.era = g.era
  /\ g.starting = "post" => Held(n, "trigger")
  /\ g.closing => Held(n, "close")

\* The invariant of these pages.
JobOK(g, e, d, n) ==
  /\ d \in JobDbs /\ e \in JobQs /\ g \in JobFs /\ n \in [Slot -> JobCalls]
  /\ StatusOnce(e, d, n) /\ LogsOnce(g, n) /\ Alive(g, n)
JobInv == mounted = TRUE /\ JobOK(f, q, db, net)

\* The calls by their kinds.
LEMMA JobCallIs ==
  ASSUME NEW k \in JobCalls
  PROVE  /\ k.kind \in {"none"} \cup JobKinds
         /\ k.kind = "status" => k \in StatusCalls
         /\ k.kind = "logs" => k \in LogCalls
         /\ k.kind \in {"incident", "trigger", "close"} => k \in OtherCalls
         /\ k.kind = "none" => k = NoCall
         /\ k.st = "idle" <=> k.kind = "none"
         /\ k.live \in BOOLEAN /\ k.ok \in BOOLEAN
<1>1. \A K, A, R : \A n \in CallsOf(K, A, R) : n.kind \in K /\ n.st # "idle" /\ n.live \in BOOLEAN /\ n.ok \in BOOLEAN
  BY DEF CallsOf
<1>2. k = NoCall => k.kind = "none" /\ k.st = "idle" /\ k.live \in BOOLEAN /\ k.ok \in BOOLEAN
  BY DEF NoCall
<1>3. k \in StatusCalls => k.kind = "status" /\ k.st # "idle" /\ k.live \in BOOLEAN /\ k.ok \in BOOLEAN
  BY <1>1 DEF StatusCalls
<1>4. k \in LogCalls => k.kind = "logs" /\ k.st # "idle" /\ k.live \in BOOLEAN /\ k.ok \in BOOLEAN
  BY <1>1 DEF LogCalls
<1>5. k \in OtherCalls => k.kind \in {"incident", "trigger", "close"} /\ k.st # "idle" /\ k.live \in BOOLEAN /\ k.ok \in BOOLEAN
  BY <1>1 DEF OtherCalls
<1>6. k = NoCall \/ k \in StatusCalls \/ k \in LogCalls \/ k \in OtherCalls
  BY DEF JobCalls
<1> HIDE DEF JobCalls, StatusCalls, LogCalls, OtherCalls, NoCall
<1> QED
  BY <1>2, <1>3, <1>4, <1>5, <1>6 DEF JobKinds

\* The calls of some kinds are the same in both.
Same(n, m, K) == \A c \in Slot : n[c].kind \in K \/ m[c].kind \in K => m[c] = n[c]

\* What that keeps.
LEMMA SameParts ==
  ASSUME NEW n, NEW m
  PROVE  /\ \A e, d : Same(n, m, {"status"}) /\ StatusOnce(e, d, n) => StatusOnce(e, d, m)
         /\ \A g, h : Same(n, m, {"logs"}) /\ LogsOnce(g, n) /\ h.era = g.era /\ h.lines = g.lines /\ h.last = g.last /\ h.log = g.log
              => LogsOnce(h, m)
         /\ \A k : Same(n, m, {k}) => (Flying(n, k) => Flying(m, k)) /\ (Held(n, k) => Held(m, k))
         /\ \A a : Same(n, m, {"logs"}) /\ (\E c \in Slot : n[c].kind = "logs" /\ n[c].live /\ n[c].arg.era = a)
              => \E c \in Slot : m[c].kind = "logs" /\ m[c].live /\ m[c].arg.era = a
<1>1. ASSUME NEW e, NEW d, Same(n, m, {"status"}), StatusOnce(e, d, n) PROVE StatusOnce(e, d, m)
  <2>1. \A c \in Slot : m[c].kind = "status" => m[c] = n[c]
    BY <1>1 DEF Same
  <2> QED
    BY <1>1, <2>1 DEF StatusOnce
<1>2. ASSUME NEW g, NEW h, Same(n, m, {"logs"}), LogsOnce(g, n), h.era = g.era, h.lines = g.lines, h.last = g.last, h.log = g.log
      PROVE  LogsOnce(h, m)
  <2>1. \A c \in Slot : m[c].kind = "logs" => m[c] = n[c]
    BY <1>2 DEF Same
  <2> QED
    BY ZenonT(60), <1>2, <2>1 DEF LogsOnce
<1>3. ASSUME NEW k, Same(n, m, {k}) PROVE (Flying(n, k) => Flying(m, k)) /\ (Held(n, k) => Held(m, k))
  <2>1. \A c \in Slot : n[c].kind = k => m[c] = n[c]
    BY <1>3 DEF Same
  <2> QED
    BY <2>1 DEF Flying, Held
<1>4. ASSUME NEW a, Same(n, m, {"logs"}), \E c \in Slot : n[c].kind = "logs" /\ n[c].live /\ n[c].arg.era = a
      PROVE  \E c \in Slot : m[c].kind = "logs" /\ m[c].live /\ m[c].arg.era = a
  <2>1. \A c \in Slot : n[c].kind = "logs" => m[c] = n[c]
    BY <1>4 DEF Same
  <2> QED
    BY <1>4, <2>1
<1> QED
  BY Zenon, <1>1, <1>2, <1>3, <1>4

\* It goes from step to step.
LEMMA SameChain == ASSUME NEW n, NEW m, NEW o, NEW K, Same(n, m, K), Same(m, o, K) PROVE Same(n, o, K)
BY DEF Same

\* A call leaves, or takes a free slot: the others stay.
LEMMA OthersStay ==
  ASSUME NEW n \in [Slot -> JobCalls]
  PROVE  /\ \A c \in Slot : Without(n, c) \in [Slot -> JobCalls] /\ c \in FreeIn(Without(n, c))
         /\ \A c \in Slot, K \in SUBSET JobKinds : n[c].kind \notin K => Same(n, Without(n, c), K)
         /\ \A k, a : Sent(k, a) \in JobCalls /\ k \in JobKinds /\ FreeIn(n) # {} =>
              /\ Adds(n, k, a) \in [Slot -> JobCalls]
              /\ \A K \in SUBSET (JobKinds \ {k}) : Same(n, Adds(n, k, a), K)
              /\ \E s \in Slot : /\ n[s].st = "idle" /\ Adds(n, k, a)[s] = Sent(k, a)
                                 /\ \A c \in Slot : c # s => Adds(n, k, a)[c] = n[c]
<1>1. NoCall \in JobCalls /\ NoCall.kind \notin JobKinds
  BY NoCallIs DEF JobCalls, JobKinds
<1>2. ASSUME NEW c \in Slot
      PROVE  /\ Without(n, c) \in [Slot -> JobCalls] /\ c \in FreeIn(Without(n, c)) /\ Without(n, c)[c] = NoCall
             /\ \A b \in Slot : b # c => Without(n, c)[b] = n[b]
  BY <1>1, Leaving
<1>3. ASSUME NEW c \in Slot, NEW K \in SUBSET JobKinds, n[c].kind \notin K PROVE Same(n, Without(n, c), K)
  BY <1>1, <1>2, <1>3 DEF Same
<1>4. ASSUME NEW k, NEW a, Sent(k, a) \in JobCalls, k \in JobKinds, FreeIn(n) # {}
      PROVE  /\ Adds(n, k, a) \in [Slot -> JobCalls]
             /\ \A K \in SUBSET (JobKinds \ {k}) : Same(n, Adds(n, k, a), K)
             /\ \E s \in Slot : /\ n[s].st = "idle" /\ Adds(n, k, a)[s] = Sent(k, a)
                                /\ \A c \in Slot : c # s => Adds(n, k, a)[c] = n[c]
  <2> DEFINE m == Adds(n, k, a)
  <2>1. m \in [Slot -> JobCalls]
    BY <1>4 DEF Adds, With, Sent
  <2>2. PICK s \in Slot : n[s].st = "idle" /\ m[s] = Sent(k, a) /\ \A c \in Slot : c # s => m[c] = n[c]
    BY <1>4, Placed
  <2> HIDE DEF m
  <2>3. n[s].kind = "none"
    BY <2>2, JobCallIs
  <2>4. m[s].kind = k
    BY <2>2, HeldCallIs
  <2>5. \A K \in SUBSET (JobKinds \ {k}) : Same(n, m, K)
    BY <2>2, <2>3, <2>4 DEF Same, JobKinds
  <2> QED
    BY <2>1, <2>2, <2>5 DEF m
<1> QED
  BY <1>2, <1>3, <1>4

\* The new calls of these pages.
LEMMA JobAsks ==
  /\ \A p \in JobPages : Sent("status", Arg(p, "first")) \in JobCalls
  /\ \A l \in BOOLEAN : NewCall("status", Arg("hub", "again"), l) \in JobCalls
  /\ Sent("incident", Nothing) \in JobCalls
  /\ \A s, e \in Nat : Sent("logs", [since |-> s, era |-> e]) \in JobCalls
  /\ \A v \in {"plain", "force"} : Sent("trigger", v) \in JobCalls
  /\ Sent("close", Nothing) \in JobCalls
<1>1. ASSUME NEW p \in JobPages, NEW v \in {"first", "again"}
      PROVE  Sent("status", Arg(p, v)) \in JobCalls /\ \A l \in BOOLEAN : NewCall("status", Arg(p, v), l) \in JobCalls
  <2> DEFINE A == [row : JobPages, val : {"first", "again"}]
             R == {r \in JobResults : r.rows.proc # "none"}
             x == Arg(p, v)
  <2>1. x \in A
    BY DEF Arg
  <2>2. StatusCalls = CallsOf({"status"}, A, R)
    BY DEF StatusCalls
  <2> HIDE DEF A, R, x
  <2>3. ASSUME NEW l \in BOOLEAN PROVE NewCall("status", x, l) \in StatusCalls
    <3>1. \A K, B, S : "status" \in K /\ x \in B => NewCall("status", x, l) \in CallsOf(K, B, S)
      BY SMT, NewCallIs
    <3> QED
      BY <2>1, <2>2, <3>1
  <2>4. Sent("status", x) \in StatusCalls
    BY <2>1, <2>2, HeldCallIs
  <2>5. Sent("status", x) \in JobCalls /\ \A l \in BOOLEAN : NewCall("status", x, l) \in JobCalls
    BY <2>3, <2>4 DEF JobCalls
  <2> QED
    BY Zenon, <2>5 DEF x
<1>2. Sent("incident", Nothing) \in JobCalls /\ Sent("close", Nothing) \in JobCalls
  <2>1. Sent("incident", Nothing) \in CallsOf({"incident"}, {Nothing}, JobResults)
    BY HeldCallIs
  <2>2. Sent("close", Nothing) \in CallsOf({"close"}, {Nothing}, {Nothing})
    BY HeldCallIs
  <2> QED
    BY <2>1, <2>2 DEF JobCalls, OtherCalls
<1>3. ASSUME NEW s \in Nat, NEW e \in Nat PROVE Sent("logs", [since |-> s, era |-> e]) \in JobCalls
  <2>1. [since |-> s, era |-> e] \in [since : Nat, era : Nat]
    OBVIOUS
  <2>2. Sent("logs", [since |-> s, era |-> e]) \in LogCalls
    BY <2>1, HeldCallIs DEF LogCalls
  <2> QED
    BY <2>2 DEF JobCalls
<1>4. ASSUME NEW v \in {"plain", "force"} PROVE Sent("trigger", v) \in JobCalls
  <2>1. Sent("trigger", v) \in CallsOf({"trigger"}, {"plain", "force"}, {Nothing})
    BY HeldCallIs
  <2> QED
    BY <2>1 DEF JobCalls, OtherCalls
<1> QED
  BY <1>1, <1>2, <1>3, <1>4 DEF JobPages

\* A fetch of the status replaces those in flight.
LEMMA StatusAsked ==
  ASSUME NEW n \in [Slot -> JobCalls], NEW p \in JobPages, FreeIn(n) # {} \/ Flying(n, "status")
  PROVE  /\ AskStatus(n, p) \in [Slot -> JobCalls] /\ Flying(AskStatus(n, p), "status")
         /\ \A K \in SUBSET (JobKinds \ {"status"}) : Same(n, AskStatus(n, p), K)
         /\ \A e, d : e.ver <= d.ver => StatusOnce(e, d, AskStatus(n, p))
         /\ \A x, y \in FreeIn(n) : x # y => FreeIn(AskStatus(n, p)) # {}
<1> DEFINE o == [c \in Slot |-> IF n[c].kind = "status" THEN NoCall ELSE n[c]]
           m == AskStatus(n, p)
           k == Sent("status", Arg(p, "first"))
<1>1. k \in JobCalls /\ k.kind = "status" /\ k.st = "sent"
  BY JobAsks, HeldCallIs
<1>2. m = Adds(o, "status", Arg(p, "first"))
  BY DEF AskStatus, Adds
<1>3. o \in [Slot -> JobCalls] /\ FreeIn(n) \subseteq FreeIn(o) /\ FreeIn(o) # {}
  <2>1. o \in [Slot -> JobCalls]
    BY DEF JobCalls
  <2>2. \A c \in Slot : o[c] = IF n[c].kind = "status" THEN NoCall ELSE n[c]
    OBVIOUS
  <2> HIDE DEF o
  <2>3. FreeIn(n) \subseteq FreeIn(o)
    BY <2>2, NoCallIs DEF FreeIn
  <2>4. \A c \in Slot : n[c].kind = "status" => c \in FreeIn(o)
    BY <2>2, NoCallIs DEF FreeIn
  <2> QED
    BY <2>1, <2>3, <2>4 DEF Flying
<1>4. \A c \in Slot : o[c].kind # "status" /\ (n[c].kind # "status" => o[c] = n[c]) /\ (n[c].kind = "status" => o[c] = NoCall)
  BY NoCallIs
<1> HIDE DEF o, k
<1>5. PICK s \in Slot : o[s].st = "idle" /\ m[s] = k /\ \A c \in Slot : c # s => m[c] = o[c]
  <2>1. Sent("status", Arg(p, "first")) \in JobCalls
    BY <1>1 DEF k
  <2>2. \E t \in Slot : o[t].st = "idle" /\ m[t] = Sent("status", Arg(p, "first")) /\ \A c \in Slot : c # t => m[c] = o[c]
    BY <1>2, <1>3, Placed
  <2> QED
    BY <2>2 DEF k
<1>6. m \in [Slot -> JobCalls]
  <2>1. Sent("status", Arg(p, "first")) \in JobCalls
    BY <1>1 DEF k
  <2> QED
    BY <1>2, <1>3, <2>1 DEF Adds, With, Sent
<1> HIDE DEF m
<1>7. Flying(m, "status")
  BY <1>1, <1>5 DEF Flying
<1>8. ASSUME NEW K \in SUBSET (JobKinds \ {"status"}) PROVE Same(n, m, K)
  <2>1. o[s].kind = "none"
    BY <1>3, <1>5, JobCallIs
  <2>2. n[s].kind \in {"none", "status"}
    BY <1>4, <2>1
  <2>3. "none" \notin K /\ "status" \notin K
    BY DEF JobKinds
  <2>4. ASSUME NEW c \in Slot, n[c].kind \in K \/ m[c].kind \in K PROVE m[c] = n[c]
    <3>1. c # s
      BY <1>1, <1>5, <2>2, <2>3, <2>4
    <3>2. m[c] = o[c]
      BY <1>5, <3>1
    <3>3. n[c].kind # "status"
      BY <1>4, <2>3, <2>4, <3>2, NoCallIs
    <3> QED
      BY <1>4, <3>2, <3>3
  <2> QED
    BY <2>4 DEF Same
<1>9. ASSUME NEW e, NEW d, e.ver <= d.ver PROVE StatusOnce(e, d, m)
  <2>1. \A c \in Slot : m[c].kind = "status" => c = s
    BY <1>4, <1>5
  <2>2. m[s].st # "answered"
    BY <1>1, <1>5
  <2> QED
    BY <1>9, <2>1, <2>2 DEF StatusOnce
<1>10. ASSUME NEW x \in FreeIn(n), NEW y \in FreeIn(n), x # y PROVE FreeIn(m) # {}
  <2>1. \A c \in FreeIn(o) : c # s => c \in FreeIn(m)
    BY <1>5 DEF FreeIn
  <2> QED
    BY <1>3, <1>10, <2>1
<1> QED
  BY <1>6, <1>7, <1>8, <1>9, <1>10 DEF m

\* A call in flight moves on, or is answered.
LEMMA JobCallStep ==
  ASSUME JobInv, mounted' = mounted, f' = f, q' = q, db' \in JobDbs, db.ver <= db'.ver,
         NEW c \in Slot, NEW k \in JobCalls, net' = [net EXCEPT ![c] = k], k.kind = net[c].kind, k.live = net[c].live,
         net[c].kind = "logs" => k.arg = net[c].arg /\ (k.st = "answered" /\ k.ok => k.res.from = k.arg.since + 1),
         net[c].kind = "status" /\ k.st = "answered" /\ k.ok => q.ver <= k.res.ver /\ k.res.ver <= db'.ver
  PROVE  JobInv'
<1>1. JobOK(f, q, db, net)
  BY DEF JobInv
<1>2. net \in [Slot -> JobCalls] /\ net' \in [Slot -> JobCalls] /\ net'[c] = k /\ \A b \in Slot : b # c => net'[b] = net[b]
  BY <1>1 DEF JobOK
<1>3. \A b \in Slot : net'[b].kind = net[b].kind /\ net'[b].live = net[b].live
  BY <1>2
<1>4. StatusOnce(q, db', net')
  <2>1. StatusOnce(q, db, net) /\ q \in JobQs /\ db \in JobDbs
    BY <1>1 DEF JobOK
  <2>2. q.ver \in Nat /\ db.ver \in Nat /\ db'.ver \in Nat
    BY <2>1 DEF JobQs, JobDbs
  <2>3. ASSUME NEW b \in Slot, net[b].kind = "status", net[b].st = "answered", net[b].ok PROVE net[b].res.ver \in Nat
    <3>1. net[b] \in StatusCalls
      BY <1>2, <2>3, JobCallIs
    <3>2. net[b].res \in {r \in JobResults : r.rows.proc # "none"}
      BY <2>3, <3>1 DEF StatusCalls, CallsOf
    <3> QED
      BY <3>2 DEF JobResults
  <2>4. ASSUME NEW b \in Slot, net'[b].kind = "status", net'[b].st = "answered", net'[b].ok
        PROVE  q.ver <= net'[b].res.ver /\ net'[b].res.ver <= db'.ver
    <3>1. CASE b = c
      BY <1>2, <1>3, <2>4, <3>1
    <3>2. CASE b # c
      <4>1. net'[b] = net[b]
        BY <1>2, <3>2
      <4>2. q.ver <= net[b].res.ver /\ net[b].res.ver <= db.ver
        BY <2>1, <2>4, <4>1 DEF StatusOnce
      <4> QED
        BY <2>2, <2>3, <2>4, <4>1, <4>2
    <3> QED
      BY <3>1, <3>2
  <2>5. \A b, a \in Slot : net'[b].kind = "status" /\ net'[a].kind = "status" => a = b
    BY <1>3, <2>1 DEF StatusOnce
  <2>6. q.ver <= db'.ver
    BY <2>1, <2>2 DEF StatusOnce
  <2> QED
    BY <2>4, <2>5, <2>6 DEF StatusOnce
<1>5. LogsOnce(f, net')
  <2> SUFFICES ASSUME f.era = 0
               PROVE  /\ Increasing(f.lines) /\ \A i \in 1..Len(f.lines) : f.lines[i] <= f.last
                      /\ \A b \in Slot : net'[b].kind = "logs" =>
                           /\ f.log = "fly" /\ net'[b].arg.since = f.last /\ net'[b].arg.era = 0
                           /\ net'[b].st = "answered" /\ net'[b].ok => net'[b].res.from = f.last + 1
                           /\ \A a \in Slot : net'[a].kind = "logs" => a = b
    BY DEF LogsOnce
  <2>1. LogsOnce(f, net)
    BY <1>1 DEF JobOK
  <2>2. ASSUME NEW b \in Slot, net'[b].kind = "logs"
        PROVE  /\ f.log = "fly" /\ net'[b].arg.since = f.last /\ net'[b].arg.era = 0
               /\ net'[b].st = "answered" /\ net'[b].ok => net'[b].res.from = f.last + 1
    <3>1. /\ f.log = "fly" /\ net[b].arg.since = f.last /\ net[b].arg.era = 0
          /\ net[b].st = "answered" /\ net[b].ok => net[b].res.from = f.last + 1
      BY <1>3, <2>1, <2>2 DEF LogsOnce
    <3> QED
      BY <1>2, <1>3, <2>2, <3>1
  <2> QED
    BY <1>3, <2>1, <2>2 DEF LogsOnce
<1>6. Alive(f, net')
  <2>1. Alive(f, net)
    BY <1>1 DEF JobOK
  <2>2. \A b \in Slot : net[b].kind = "logs" => net'[b].arg = net[b].arg
    BY <1>2
  <2> QED
    BY <1>3, <2>1, <2>2 DEF Alive, Flying, Held
<1>7. JobOK(f, q, db', net')
  BY <1>1, <1>2, <1>4, <1>5, <1>6 DEF JobOK
<1> QED
  BY <1>7 DEF JobInv

\* The pipeline behind the server moves.
LEMMA JobDbStep ==
  ASSUME JobInv, mounted' = mounted, f' = f, q' = q, net' = net, db' \in JobDbs, db.ver <= db'.ver
  PROVE  JobInv'
<1>1. JobOK(f, q, db, net)
  BY DEF JobInv
<1>2. q.ver \in Nat /\ db.ver \in Nat /\ db'.ver \in Nat /\ StatusOnce(q, db, net) /\ net \in [Slot -> JobCalls]
  BY <1>1 DEF JobOK, JobQs, JobDbs
<1>3. ASSUME NEW b \in Slot, net[b].kind = "status", net[b].st = "answered", net[b].ok PROVE net[b].res.ver \in Nat
  <2>1. net[b] \in StatusCalls
    BY <1>2, <1>3, JobCallIs
  <2>2. net[b].res \in {r \in JobResults : r.rows.proc # "none"}
    BY <1>3, <2>1 DEF StatusCalls, CallsOf
  <2> QED
    BY <2>2 DEF JobResults
<1>4. StatusOnce(q, db', net)
  BY <1>2, <1>3 DEF StatusOnce
<1>5. JobOK(f, q, db', net)
  BY <1>1, <1>4 DEF JobOK
<1> QED
  BY <1>5 DEF JobInv

\* The network, on these pages.
LEMMA JobNetKeeps == \A c \in Slot : JobInv /\ (Retries(c) \/ Breaks(c) \/ Unserved(c)) => JobInv'
<1> SUFFICES ASSUME NEW c \in Slot, JobInv, Retries(c) \/ Breaks(c) \/ Unserved(c) PROVE JobInv'
  OBVIOUS
<1>1. net \in [Slot -> JobCalls] /\ db \in JobDbs
  BY DEF JobInv, JobOK
<1>2. PICK k : Moved(net[c], k) /\ net' = [net EXCEPT ![c] = k]
  BY <1>1, OneSlot
<1>3. net[c].st # "idle" /\ UNCHANGED <<page, mounted, f, q, db>>
  BY <1>1, OneSlot
<1> DEFINE m == net[c]
<1>4. m \in JobCalls /\ m.kind # "none"
  BY <1>1, <1>3, JobCallIs
<1> HIDE DEF m
<1>5. Moved(m, k)
  BY <1>2 DEF m
<1>6. ASSUME NEW K, NEW A, NEW R, m \in CallsOf(K, A, R)
      PROVE  /\ k \in CallsOf(K, A, R) /\ k.kind = m.kind /\ k.arg = m.arg /\ k.live = m.live
             /\ ~(k.st = "answered" /\ k.ok)
  BY <1>5, <1>6, MovedCall
<1>7. m \in StatusCalls \/ m \in LogCalls \/ m \in OtherCalls
  BY <1>4, JobCallIs DEF JobKinds
<1>8. k \in JobCalls /\ k.kind = m.kind /\ k.arg = m.arg /\ k.live = m.live /\ ~(k.st = "answered" /\ k.ok)
  <2>1. CASE m \in StatusCalls
    BY <1>6, <2>1 DEF StatusCalls, JobCalls
  <2>2. CASE m \in LogCalls
    BY <1>6, <2>2 DEF LogCalls, JobCalls
  <2>3. CASE m \in OtherCalls
    BY <1>6, <2>3 DEF OtherCalls, JobCalls
  <2> QED
    BY <1>7, <2>1, <2>2, <2>3
<1>9. db.ver <= db.ver
  BY <1>1 DEF JobDbs
<1> QED
  BY <1>1, <1>2, <1>3, <1>8, <1>9, JobCallStep DEF m

\* An answer of the server.
LEMMA JobAnswer ==
  ASSUME JobInv, NEW c \in Slot, net[c].st = "sent", NEW ok \in BOOLEAN, NEW r, Serve(c, ok, r), mounted' = mounted, f' = f, q' = q,
         db' \in JobDbs, db.ver <= db'.ver,
         \/ ~ok /\ r \in {Nothing, "absent"}
         \/ net[c].kind = "status" /\ r \in JobResults /\ r.rows.proc # "none" /\ r.ver = db'.ver
         \/ net[c].kind = "incident" /\ r \in JobResults
         \/ net[c].kind = "logs" /\ r \in [from : Nat, to : Nat] /\ r.from = net[c].arg.since + 1
         \/ net[c].kind \in {"trigger", "close"} /\ r = Nothing
  PROVE  JobInv'
<1> DEFINE m == net[c]
           k == [m EXCEPT !.st = "answered", !.ok = ok, !.res = r]
<1>1. net \in [Slot -> JobCalls] /\ StatusOnce(q, db, net) /\ q \in JobQs /\ db \in JobDbs
  BY DEF JobInv, JobOK
<1>2. net' = [net EXCEPT ![c] = k]
  BY <1>1 DEF Serve
<1>3. m \in JobCalls /\ m.kind # "none"
  BY <1>1, JobCallIs
<1>4. q.ver <= db'.ver
  BY <1>1 DEF StatusOnce, JobQs, JobDbs
<1> HIDE DEF m
<1>5. ASSUME NEW K, NEW A, NEW R, m \in CallsOf(K, A, R), r \in R \cup {Nothing, "absent"}, ok => r \in R
      PROVE  /\ k \in CallsOf(K, A, R) /\ k.kind = m.kind /\ k.arg = m.arg /\ k.live = m.live
             /\ (k.ok <=> ok) /\ k.res = r
  <2>1. k \in CallsOf(K, A, R)
    BY Zenon, <1>5, CallMoves
  <2>2. m \in [st : {"sent", "answered", "broken"}, kind : K, arg : A, try : 1..2, ok : BOOLEAN,
               res : R \cup {Nothing, "absent"}, live : BOOLEAN]
    BY <1>5 DEF CallsOf
  <2> QED
    BY <2>1, <2>2
<1> HIDE DEF k
<1>6. \/ ~ok /\ r \in {Nothing, "absent"}
      \/ m.kind = "status" /\ r \in JobResults /\ r.rows.proc # "none" /\ r.ver = db'.ver
      \/ m.kind = "incident" /\ r \in JobResults
      \/ m.kind = "logs" /\ r \in [from : Nat, to : Nat] /\ r.from = m.arg.since + 1
      \/ m.kind \in {"trigger", "close"} /\ r = Nothing
  BY DEF m
<1>7. k \in JobCalls /\ k.kind = m.kind /\ k.arg = m.arg /\ k.live = m.live /\ (k.ok <=> ok) /\ k.res = r
  <2>1. CASE m.kind = "status"
    <3> DEFINE A == [row : JobPages, val : {"first", "again"}]
               R == {x \in JobResults : x.rows.proc # "none"}
    <3>1. m \in CallsOf({"status"}, A, R)
      BY <1>3, <2>1, JobCallIs DEF StatusCalls
    <3>2. r \in R \cup {Nothing, "absent"} /\ (ok => r \in R)
      BY <1>6, <2>1
    <3>3. k \in CallsOf({"status"}, A, R) => k \in JobCalls
      BY DEF JobCalls, StatusCalls
    <3> HIDE DEF A, R
    <3> QED
      BY <1>5, <3>1, <3>2, <3>3
  <2>2. CASE m.kind = "logs"
    <3> DEFINE A == [since : Nat, era : Nat]
               R == [from : Nat, to : Nat]
    <3>1. m \in CallsOf({"logs"}, A, R)
      BY <1>3, <2>2, JobCallIs DEF LogCalls
    <3>2. r \in R \cup {Nothing, "absent"} /\ (ok => r \in R)
      BY <1>6, <2>2
    <3>3. k \in CallsOf({"logs"}, A, R) => k \in JobCalls
      BY DEF JobCalls, LogCalls
    <3> HIDE DEF A, R
    <3> QED
      BY <1>5, <3>1, <3>2, <3>3
  <2>3. CASE m.kind \in {"incident", "trigger", "close"}
    <3>1. \A K, A, R : \A n \in CallsOf(K, A, R) : n.kind \in K
      BY DEF CallsOf
    <3>2. m \in OtherCalls
      BY <1>3, <2>3, JobCallIs
    <3>3. CASE m.kind = "incident"
      <4>1. m \in CallsOf({"incident"}, {Nothing}, JobResults)
        BY <3>1, <3>2, <3>3 DEF OtherCalls
      <4>2. r \in JobResults \cup {Nothing, "absent"} /\ (ok => r \in JobResults)
        BY <1>6, <3>3
      <4>3. k \in CallsOf({"incident"}, {Nothing}, JobResults) => k \in JobCalls
        BY DEF JobCalls, OtherCalls
      <4> QED
        BY <1>5, <4>1, <4>2, <4>3
    <3>4. CASE m.kind = "trigger"
      <4>1. m \in CallsOf({"trigger"}, {"plain", "force"}, {Nothing})
        BY <3>1, <3>2, <3>4 DEF OtherCalls
      <4>2. r \in {Nothing} \cup {Nothing, "absent"} /\ (ok => r \in {Nothing})
        BY <1>6, <3>4
      <4>3. k \in CallsOf({"trigger"}, {"plain", "force"}, {Nothing}) => k \in JobCalls
        BY DEF JobCalls, OtherCalls
      <4> QED
        BY <1>5, <4>1, <4>2, <4>3
    <3>5. CASE m.kind = "close"
      <4>1. m \in CallsOf({"close"}, {Nothing}, {Nothing})
        BY <3>1, <3>2, <3>5 DEF OtherCalls
      <4>2. r \in {Nothing} \cup {Nothing, "absent"} /\ (ok => r \in {Nothing})
        BY <1>6, <3>5
      <4>3. k \in CallsOf({"close"}, {Nothing}, {Nothing}) => k \in JobCalls
        BY DEF JobCalls, OtherCalls
      <4> QED
        BY <1>5, <4>1, <4>2, <4>3
    <3> QED
      BY <2>3, <3>3, <3>4, <3>5
  <2> QED
    BY <1>3, <2>1, <2>2, <2>3, JobCallIs DEF JobKinds
<1>8. m.kind = "logs" => k.arg = m.arg /\ (k.st = "answered" /\ k.ok => k.res.from = k.arg.since + 1)
  BY <1>6, <1>7
<1>9. m.kind = "status" /\ k.st = "answered" /\ k.ok => q.ver <= k.res.ver /\ k.res.ver <= db'.ver
  <2>1. db'.ver <= db'.ver
    BY DEF JobDbs
  <2> QED
    BY <1>4, <1>6, <1>7, <2>1
<1> QED
  BY <1>2, <1>7, <1>8, <1>9, JobCallStep DEF m

\* The server's answers.
LEMMA JobServedKeeps == \A c \in Slot : JobInv /\ JobServed(c) => JobInv'
<1> SUFFICES ASSUME NEW c \in Slot, JobInv, JobServed(c) PROVE JobInv'
  OBVIOUS
<1>1. mounted = TRUE /\ db \in JobDbs /\ net \in [Slot -> JobCalls]
  BY DEF JobInv, JobOK
<1>2. db.ver \in Nat /\ db.rows \in JobRows /\ db.ver <= db.ver
  BY <1>1 DEF JobDbs
<1> DEFINE res == Result(db.ver, db.rows, None)
<1>3. res \in JobResults /\ res.ver = db.ver /\ res.rows = db.rows
  BY <1>2 DEF Result, JobResults
<1> HIDE DEF res
<1>4. CASE ServeStatus(c)
  <2>1. net[c].st = "sent" /\ net[c].kind = "status" /\ mounted' = mounted /\ f' = f /\ q' = q /\ db' = db
    BY <1>4 DEF ServeStatus, Asked
  <2>2. CASE db.rows.proc = "none"
    <3>1. Serve(c, FALSE, "absent")
      BY <1>4, <2>2 DEF ServeStatus
    <3> QED
      BY <1>1, <1>2, <2>1, <3>1, JobAnswer
  <2>3. CASE db.rows.proc # "none"
    <3>1. Serve(c, TRUE, res)
      BY <1>4, <2>3 DEF ServeStatus, res
    <3> QED
      BY <1>1, <1>2, <1>3, <2>1, <2>3, <3>1, JobAnswer
  <2> QED
    BY <2>2, <2>3
<1>5. CASE ServeIncident(c)
  <2>1. net[c].st = "sent" /\ net[c].kind = "incident" /\ mounted' = mounted /\ f' = f /\ q' = q /\ db' = db /\ Serve(c, TRUE, res)
    BY <1>5 DEF ServeIncident, Asked, res
  <2> QED
    BY <1>1, <1>2, <1>3, <2>1, JobAnswer
<1>6. CASE ServeLogs(c)
  <2> DEFINE r == [from |-> net[c].arg.since + 1, to |-> db.rows.logs]
  <2>1. net[c].st = "sent" /\ net[c].kind = "logs" /\ mounted' = mounted /\ f' = f /\ q' = q /\ db' = db /\ Serve(c, TRUE, r)
    BY <1>6 DEF ServeLogs, Asked
  <2>2. net[c] \in LogCalls
    BY <1>1, <2>1, JobCallIs
  <2>3. net[c].arg.since \in Nat
    BY <2>2 DEF LogCalls, CallsOf
  <2>4. r \in [from : Nat, to : Nat] /\ r.from = net[c].arg.since + 1
    BY <1>2, <2>3 DEF JobRows
  <2> HIDE DEF r
  <2> QED
    BY <1>1, <1>2, <2>1, <2>4, JobAnswer
<1>7. ASSUME NEW ok \in BOOLEAN, NEW new \in JobRows, net[c].st = "sent", net[c].kind \in {"trigger", "close"}, Answers(c, ok, new)
      PROVE  JobInv'
  <2>1. /\ Serve(c, ok, Nothing) /\ mounted' = mounted /\ f' = f /\ q' = q
        /\ db' = [ver |-> IF new = db.rows THEN db.ver ELSE db.ver + 1, rows |-> new]
    BY <1>7 DEF Answers
  <2>2. db' \in JobDbs /\ db.ver <= db'.ver
    <3> DEFINE v == IF new = db.rows THEN db.ver ELSE db.ver + 1
    <3>1. v \in Nat /\ db.ver <= v
      BY <1>2
    <3> HIDE DEF v
    <3>2. db' = [ver |-> v, rows |-> new]
      BY <2>1 DEF v
    <3> QED
      BY <3>1, <3>2 DEF JobDbs
  <2> QED
    BY <1>7, <2>1, <2>2, JobAnswer
<1>8. CASE ServeTrigger(c)
  <2> DEFINE new == IF Starts(c) THEN [db.rows EXCEPT !.proc = "PENDING"] ELSE db.rows
             ok == db.rows.inc # "collecting"
  <2>1. new \in JobRows
    BY <1>2 DEF JobRows, Procs
  <2>2. net[c].st = "sent" /\ net[c].kind = "trigger" /\ Answers(c, ok, new)
    BY <1>8 DEF ServeTrigger, Asked
  <2>3. ok \in BOOLEAN
    OBVIOUS
  <2> HIDE DEF new, ok
  <2> QED
    BY <1>7, <2>1, <2>2, <2>3
<1>9. CASE TriggerUnqueued(c)
  <2>1. /\ net[c].st = "sent" /\ net[c].kind = "trigger" /\ Serve(c, FALSE, Nothing) /\ mounted' = mounted /\ f' = f /\ q' = q
        /\ db' = [ver |-> db.ver + 1, rows |-> [db.rows EXCEPT !.proc = "FAILED"]]
    BY <1>9 DEF TriggerUnqueued, Asked
  <2>2. [db.rows EXCEPT !.proc = "FAILED"] \in JobRows
    BY <1>2 DEF JobRows, Procs, Finished
  <2>3. db' \in JobDbs /\ db.ver <= db'.ver
    BY <1>2, <2>1, <2>2 DEF JobDbs
  <2> QED
    BY <2>1, <2>3, JobAnswer
<1>10. CASE ServeClose(c)
  <2> DEFINE ok == db.rows.inc # "collecting" /\ ~Running(db.rows.proc) /\ db.rows.tl # "BUILDING"
             new == [db.rows EXCEPT !.inc = IF ok THEN "closed" ELSE @]
  <2>1. new \in JobRows
    BY <1>2 DEF JobRows
  <2>2. net[c].st = "sent" /\ net[c].kind = "close" /\ Answers(c, ok, new)
    BY <1>10 DEF ServeClose, Asked
  <2>3. ok \in BOOLEAN
    OBVIOUS
  <2> HIDE DEF new, ok
  <2> QED
    BY <1>7, <2>1, <2>2, <2>3
<1> QED
  BY <1>4, <1>5, <1>6, <1>8, <1>9, <1>10 DEF JobServed

\* The pipeline and the collection behind the server.
LEMMA JobMovesKeep == JobInv /\ (CollectionEnds \/ PipelineRuns \/ PipelineEnds \/ TimelineMoves) => JobInv'
<1> SUFFICES ASSUME JobInv, CollectionEnds \/ PipelineRuns \/ PipelineEnds \/ TimelineMoves PROVE JobInv'
  OBVIOUS
<1>1. db.ver \in Nat /\ db.rows \in JobRows
  BY DEF JobInv, JobOK, JobDbs
<1>2. ASSUME NEW new \in JobRows, Moves(new) PROVE JobInv'
  <2>1. db' \in JobDbs /\ db.ver <= db'.ver
    BY <1>1, <1>2 DEF Moves, JobDbs
  <2> QED
    BY <1>2, <2>1, JobDbStep DEF Moves
<1>3. [db.rows EXCEPT !.inc = "complete"] \in JobRows
  BY <1>1 DEF JobRows
<1> DEFINE l == db.rows.logs + 1
<1>4. \A s \in Procs : [db.rows EXCEPT !.proc = s, !.logs = l] \in JobRows
  <2>1. l \in Nat
    BY <1>1 DEF JobRows
  <2> HIDE DEF l
  <2> QED
    BY <1>1, <2>1 DEF JobRows
<1>5. /\ [db.rows EXCEPT !.proc = "RUNNING", !.logs = @ + 1] \in JobRows
      /\ \A s \in Finished : [db.rows EXCEPT !.proc = s, !.logs = @ + 1] \in JobRows
  BY <1>4 DEF Procs
<1>6. [db.rows EXCEPT !.tl = IF @ = "none" THEN "BUILDING" ELSE "DONE"] \in JobRows
  BY <1>1 DEF JobRows
<1> QED
  BY <1>2, <1>3, <1>5, <1>6 DEF CollectionEnds, PipelineRuns, PipelineEnds, TimelineMoves

\* The log is as it was, or its poller was ended.
LogKept(g, h) == \/ h.era = g.era /\ h.lines = g.lines /\ h.last = g.last /\ h.log = g.log
                 \/ h.era = g.era + 1 /\ h.log = "idle"

\* A step of the page that does not poll the log.
LEMMA JobStep ==
  ASSUME JobInv, mounted' = mounted, db' = db, q' \in JobQs, f' \in JobFs, net' \in [Slot -> JobCalls],
         Same(net, net', {"logs"}), LogKept(f, f'), StatusOnce(q', db, net'),
         f'.stat = "fly" \/ f'.starting = "reload" => Flying(net', "status"),
         f'.starting = "post" => Held(net', "trigger"), f'.closing => Held(net', "close")
  PROVE  JobInv'
<1>1. f \in JobFs /\ LogsOnce(f, net) /\ Alive(f, net) /\ db \in JobDbs
  BY DEF JobInv, JobOK
<1>2. LogsOnce(f', net')
  <2>1. CASE f'.era = f.era /\ f'.lines = f.lines /\ f'.last = f.last /\ f'.log = f.log
    BY <1>1, <2>1, SameParts
  <2>2. CASE f'.era = f.era + 1
    <3>1. f'.era # 0
      BY <1>1, <2>2 DEF JobFs
    <3> QED
      BY <3>1 DEF LogsOnce
  <2> QED
    BY <2>1, <2>2 DEF LogKept
<1>3. f'.log = "fly" => \E c \in Slot : net'[c].kind = "logs" /\ net'[c].live /\ net'[c].arg.era = f'.era
  <2> SUFFICES ASSUME f'.log = "fly" PROVE \E c \in Slot : net'[c].kind = "logs" /\ net'[c].live /\ net'[c].arg.era = f'.era
    OBVIOUS
  <2>1. f'.era = f.era /\ f.log = "fly"
    BY DEF LogKept
  <2>2. \E c \in Slot : net[c].kind = "logs" /\ net[c].live /\ net[c].arg.era = f.era
    BY <1>1, <2>1 DEF Alive
  <2>3. \E c \in Slot : net'[c].kind = "logs" /\ net'[c].live /\ net'[c].arg.era = f.era
    BY <2>2, SameParts
  <2> QED
    BY <2>1, <2>3
<1>4. Alive(f', net')
  BY <1>3 DEF Alive
<1> QED
  BY <1>1, <1>2, <1>4 DEF JobInv, JobOK

\* What the invariant says of a call that is waited for.
LEMMA JobWaits ==
  ASSUME JobInv
  PROVE  /\ f.stat = "fly" \/ f.starting = "reload" => Flying(net, "status")
         /\ f.starting = "post" => Held(net, "trigger")
         /\ f.closing => Held(net, "close")
         /\ mounted = TRUE /\ db \in JobDbs /\ q \in JobQs /\ f \in JobFs /\ net \in [Slot -> JobCalls]
         /\ StatusOnce(q, db, net) /\ q.ver <= db.ver
         /\ StatusFlying <=> Flying(net, "status")
<1>1. JobOK(f, q, db, net) /\ mounted = TRUE
  BY DEF JobInv
<1>2. net \in [Slot -> JobCalls]
  BY <1>1 DEF JobOK
<1>3. \A c \in Slot : net[c].kind = "status" => net[c].st # "idle"
  BY <1>2, JobCallIs
<1>4. StatusFlying <=> Flying(net, "status")
  BY <1>3 DEF StatusFlying, Flying
<1> QED
  BY <1>1, <1>2, <1>4 DEF JobOK, Alive, StatusOnce

\* A call that nobody holds, or of another kind, is not the one waited for.
LEMMA HeldStays ==
  ASSUME NEW n \in [Slot -> JobCalls], NEW c \in Slot, NEW k \in JobKinds, Held(n, k), n[c].kind # k \/ ~n[c].live
  PROVE  Held(Without(n, c), k)
<1>1. PICK b \in Slot : n[b].kind = k /\ n[b].live
  BY DEF Held
<1>2. b # c
  BY <1>1
<1>3. Without(n, c)[b] = n[b]
  BY <1>2 DEF Without
<1> QED
  BY <1>1, <1>3 DEF Held

\* The pollers are ended, or not.
LEMMA TurnedIs ==
  ASSUME JobInv, NEW g \in JobFs, NEW old, NEW new
  PROVE  /\ Turned(g, old, new) \in JobFs /\ Turned(g, old, new).starting = g.starting /\ Turned(g, old, new).closing = g.closing
         /\ Turned(g, old, new).stat \in {g.stat, "idle"}
         /\ LogKept(g, Turned(g, old, new))
<1>1. CASE Polled(f, old) /\ ~Polled(g, new)
  <2> DEFINE e == g.era + 1
             h == [g EXCEPT !.stat = "idle", !.log = "idle", !.era = e]
  <2>1. Turned(g, old, new) = h
    BY <1>1 DEF Turned
  <2>2. e \in Nat
    BY DEF JobFs
  <2> HIDE DEF e
  <2>3. h \in JobFs /\ h.starting = g.starting /\ h.closing = g.closing /\ h.stat = "idle" /\ h.era = e /\ h.log = "idle"
    BY <2>2 DEF JobFs
  <2> HIDE DEF h
  <2>4. LogKept(g, h)
    BY <2>3 DEF LogKept, e
  <2> QED
    BY <2>1, <2>3, <2>4
<1>2. CASE ~(Polled(f, old) /\ ~Polled(g, new))
  <2>1. Turned(g, old, new) = g
    BY <1>2 DEF Turned
  <2> QED
    BY <2>1 DEF LogKept
<1> QED
  BY <1>1, <1>2

\* A fetch of the status that has ended.
LEMMA SeesKeeps ==
  ASSUME JobInv, NEW c \in Slot, net[c].kind = "status", NEW e \in JobQs, e.ver <= db.ver, Sees(c, e)
  PROVE  JobInv'
<1>1. mounted = TRUE /\ f \in JobFs /\ net \in [Slot -> JobCalls] /\ StatusOnce(q, db, net)
  BY JobWaits
<1> DEFINE g == Settled(f)
           h == Turned(g, job, IF e.have THEN e.rows ELSE "null")
<1>2. q' = e /\ net' = Without(net, c) /\ f' = h /\ mounted' = mounted /\ db' = db
  BY <1>1 DEF Sees
<1>3. g \in JobFs /\ g.stat = "idle" /\ g.starting # "reload" /\ (g.starting = "post" => f.starting = "post") /\ g.closing = f.closing
      /\ g.era = f.era /\ g.lines = f.lines /\ g.last = f.last /\ g.log = f.log
  BY <1>1 DEF Settled, JobFs
<1> HIDE DEF g
<1>4. h \in JobFs /\ h.starting = g.starting /\ h.closing = g.closing /\ h.stat \in {g.stat, "idle"} /\ LogKept(g, h)
  BY <1>3, TurnedIs
<1> HIDE DEF h
<1>5. LogKept(f, h)
  BY <1>3, <1>4 DEF LogKept
<1>6. net' \in [Slot -> JobCalls] /\ Same(net, net', {"logs"})
  BY <1>1, <1>2, OthersStay DEF JobKinds
<1>7. StatusOnce(e, db, net')
  <2>1. \A b \in Slot : net'[b].kind # "status"
    <3>1. \A b \in Slot : net'[b] = IF b = c THEN NoCall ELSE net[b]
      BY <1>1, <1>2 DEF Without
    <3>2. \A b \in Slot : net[b].kind = "status" => b = c
      BY <1>1 DEF StatusOnce
    <3> QED
      BY <3>1, <3>2, NoCallIs
  <2> QED
    BY <2>1 DEF StatusOnce
<1>8. h.starting = "post" => Held(net', "trigger")
  BY <1>1, <1>2, <1>3, <1>4, JobWaits, HeldStays DEF JobKinds
<1>9. h.closing => Held(net', "close")
  BY <1>1, <1>2, <1>3, <1>4, JobWaits, HeldStays DEF JobKinds
<1>10. h.stat # "fly" /\ h.starting # "reload"
  BY <1>3, <1>4
<1> QED
  BY <1>2, <1>4, <1>5, <1>6, <1>7, <1>8, <1>9, <1>10, JobStep

\* The ends of the fetches of the status.
LEMMA StatusKeeps ==
  \A c \in Slot : JobInv /\ (StatusArrives(c) \/ StatusAbsent(c) \/ StatusAgain(c) \/ StatusFails(c)) => JobInv'
<1> SUFFICES ASSUME NEW c \in Slot, JobInv, StatusArrives(c) \/ StatusAbsent(c) \/ StatusAgain(c) \/ StatusFails(c) PROVE JobInv'
  OBVIOUS
<1>1. q \in JobQs /\ db \in JobDbs /\ net \in [Slot -> JobCalls] /\ StatusOnce(q, db, net) /\ q.ver <= db.ver
  BY JobWaits
<1>2. net[c].kind = "status"
  BY DEF StatusArrives, StatusAbsent, StatusAgain, StatusFails, Absent, Resolved, Rejected
<1>3. CASE StatusArrives(c)
  <2> DEFINE v == net[c].res.ver
             p == net[c].res.rows.proc
             e == [q EXCEPT !.have = TRUE, !.ver = v, !.rows = p, !.err = FALSE]
  <2>1. net[c].st = "answered" /\ net[c].ok /\ Sees(c, e)
    BY <1>3 DEF StatusArrives, Resolved
  <2>2. net[c] \in StatusCalls
    BY <1>1, <1>2, JobCallIs
  <2>3. net[c].res \in {r \in JobResults : r.rows.proc # "none"}
    BY <2>1, <2>2 DEF StatusCalls, CallsOf
  <2>4. v \in Nat /\ p \in Procs
    BY <2>3 DEF JobResults, JobRows
  <2>5. v <= db.ver
    BY <1>1, <1>2, <2>1 DEF StatusOnce
  <2> HIDE DEF v, p
  <2>6. e \in JobQs /\ e.ver = v
    BY <1>1, <2>4 DEF JobQs
  <2> HIDE DEF e
  <2> QED
    BY <1>2, <2>1, <2>5, <2>6, SeesKeeps
<1>4. CASE StatusAbsent(c)
  <2> DEFINE e == [q EXCEPT !.have = TRUE, !.rows = "null", !.err = FALSE]
  <2>1. Sees(c, e)
    BY <1>4 DEF StatusAbsent
  <2>2. e \in JobQs /\ e.ver = q.ver
    BY <1>1 DEF JobQs
  <2> HIDE DEF e
  <2> QED
    BY <1>1, <1>2, <2>1, <2>2, SeesKeeps
<1>5. CASE StatusFails(c)
  <2> DEFINE e == [q EXCEPT !.err = TRUE]
  <2>1. Sees(c, e)
    BY <1>5 DEF StatusFails
  <2>2. e \in JobQs /\ e.ver = q.ver
    BY <1>1 DEF JobQs
  <2> HIDE DEF e
  <2> QED
    BY <1>1, <1>2, <2>1, <2>2, SeesKeeps
<1>6. CASE StatusAgain(c)
  <2> DEFINE l == net[c].live
             k == NewCall("status", Arg("hub", "again"), l)
  <2>1. l \in BOOLEAN
    BY <1>1, JobCallIs
  <2>2. net' = [net EXCEPT ![c] = k] /\ mounted' = mounted /\ f' = f /\ q' = q /\ db' = db
    BY <1>6 DEF StatusAgain
  <2> HIDE DEF l
  <2>3. k \in JobCalls
    BY <2>1, JobAsks
  <2>4. k.kind = "status" /\ k.st = "sent" /\ k.live = l
    BY SMT, <2>1, NewCallIs
  <2> HIDE DEF k
  <2>5. db.ver <= db.ver
    BY <1>1 DEF JobDbs
  <2> QED
    BY <1>1, <1>2, <2>2, <2>3, <2>4, <2>5, JobCallStep DEF l
<1> QED
  BY <1>3, <1>4, <1>5, <1>6

\* The answers about the incident.
LEMMA IncidentKeeps == \A c \in Slot : JobInv /\ (IncidentArrives(c) \/ IncidentFails(c)) => JobInv'
<1> SUFFICES ASSUME NEW c \in Slot, JobInv, IncidentArrives(c) \/ IncidentFails(c) PROVE JobInv'
  OBVIOUS
<1>1. q \in JobQs /\ f \in JobFs /\ net \in [Slot -> JobCalls] /\ StatusOnce(q, db, net)
  BY JobWaits
<1>2. /\ net[c].kind = "incident" /\ net' = Without(net, c) /\ mounted' = mounted /\ q' = q /\ db' = db
  BY DEF IncidentArrives, IncidentFails, Resolved, Rejected, Then
<1>3. net' \in [Slot -> JobCalls] /\ Same(net, net', {"logs"}) /\ Same(net, net', {"status"})
  BY <1>1, <1>2, OthersStay DEF JobKinds
<1>4. /\ f' \in JobFs /\ f'.starting = f.starting /\ f'.closing = f.closing /\ f'.stat \in {f.stat, "idle"} /\ LogKept(f, f')
  <2>1. CASE IncidentArrives(c) /\ net[c].live
    <3> DEFINE r == net[c].res.rows
               i == r.inc
               t == r.tl
               g == [f EXCEPT !.inc = i, !.tl = t]
               h == Turned(g, job, job)
    <3>1. net[c].st = "answered" /\ net[c].ok /\ f' = h
      BY <2>1 DEF IncidentArrives, Resolved, Then
    <3>2. net[c] \in CallsOf({"incident"}, {Nothing}, JobResults)
      <4>1. net[c] \in OtherCalls
        BY <1>1, <1>2, JobCallIs
      <4>2. \A K, A, R : \A n \in CallsOf(K, A, R) : n.kind \in K
        BY DEF CallsOf
      <4> QED
        BY <1>2, <4>1, <4>2 DEF OtherCalls
    <3>3. net[c].res \in JobResults
      BY <3>1, <3>2 DEF CallsOf
    <3>4. i \in {"collecting", "complete", "closed"} /\ t \in {"none", "BUILDING", "DONE"}
      BY <3>3 DEF JobResults, JobRows
    <3> HIDE DEF i, t
    <3>5. /\ g \in JobFs /\ g.starting = f.starting /\ g.closing = f.closing /\ g.stat = f.stat
          /\ g.era = f.era /\ g.lines = f.lines /\ g.last = f.last /\ g.log = f.log
      BY <1>1, <3>4 DEF JobFs
    <3> HIDE DEF g
    <3>6. h \in JobFs /\ h.starting = g.starting /\ h.closing = g.closing /\ h.stat \in {g.stat, "idle"} /\ LogKept(g, h)
      BY <3>5, TurnedIs
    <3> HIDE DEF h
    <3>7. LogKept(f, h)
      BY <3>5, <3>6 DEF LogKept
    <3> QED
      BY <3>1, <3>5, <3>6, <3>7
  <2>2. CASE ~(IncidentArrives(c) /\ net[c].live)
    <3>1. f' = f
      BY <2>2 DEF IncidentArrives, IncidentFails, Then
    <3> QED
      BY <1>1, <3>1 DEF LogKept
  <2> QED
    BY <2>1, <2>2
<1>5. StatusOnce(q, db, net') /\ (Flying(net, "status") => Flying(net', "status"))
  BY <1>1, <1>3, SameParts
<1>6. (Held(net, "trigger") => Held(net', "trigger")) /\ (Held(net, "close") => Held(net', "close"))
  BY <1>1, <1>2, HeldStays DEF JobKinds
<1>7. f'.stat = "fly" \/ f'.starting = "reload" => Flying(net', "status")
  BY <1>4, <1>5, JobWaits
<1>8. (f'.starting = "post" => Held(net', "trigger")) /\ (f'.closing => Held(net', "close"))
  BY <1>4, <1>6, JobWaits
<1> QED
  BY <1>1, <1>2, <1>3, <1>4, <1>5, <1>7, <1>8, JobStep

\* A poll of the log has ended.
LEMMA LogsEnd ==
  ASSUME JobInv, NEW c \in Slot, net[c].kind = "logs", net' = Without(net, c), mounted' = mounted, q' = q, db' = db,
         f' \in JobFs, f'.stat = f.stat, f'.starting = f.starting, f'.closing = f.closing, f'.era = f.era,
         f'.log = f.log \/ f'.log = "idle", f'.log = "fly" => ~net[c].live \/ net[c].arg.era # f.era,
         f.era = 0 => Increasing(f'.lines) /\ \A i \in 1..Len(f'.lines) : f'.lines[i] <= f'.last
  PROVE  JobInv'
<1>1. q \in JobQs /\ db \in JobDbs /\ net \in [Slot -> JobCalls] /\ StatusOnce(q, db, net)
  BY JobWaits
<1>2. LogsOnce(f, net) /\ Alive(f, net)
  BY DEF JobInv, JobOK
<1>3. net' \in [Slot -> JobCalls] /\ Same(net, net', {"status"})
  BY <1>1, OthersStay DEF JobKinds
<1>4. StatusOnce(q, db, net') /\ (Flying(net, "status") => Flying(net', "status"))
  BY <1>1, <1>3, SameParts
<1>5. (Held(net, "trigger") => Held(net', "trigger")) /\ (Held(net, "close") => Held(net', "close"))
  BY <1>1, HeldStays DEF JobKinds
<1>6. \A b \in Slot : net'[b] = IF b = c THEN NoCall ELSE net[b]
  BY <1>1 DEF Without
<1>7. LogsOnce(f', net')
  <2> SUFFICES ASSUME f.era = 0 PROVE \A b \in Slot : net'[b].kind # "logs"
    BY DEF LogsOnce
  <2>1. \A b \in Slot : net[b].kind = "logs" => b = c
    BY <1>2 DEF LogsOnce
  <2> QED
    BY <1>6, <2>1, NoCallIs
<1>8. f'.log = "fly" => \E b \in Slot : net'[b].kind = "logs" /\ net'[b].live /\ net'[b].arg.era = f'.era
  <2> SUFFICES ASSUME f'.log = "fly" PROVE \E b \in Slot : net'[b].kind = "logs" /\ net'[b].live /\ net'[b].arg.era = f.era
    OBVIOUS
  <2>1. PICK b \in Slot : net[b].kind = "logs" /\ net[b].live /\ net[b].arg.era = f.era
    BY <1>2 DEF Alive
  <2>2. b # c
    BY <2>1
  <2> QED
    BY <1>6, <2>1, <2>2
<1>9. Alive(f', net')
  BY <1>2, <1>4, <1>5, <1>8 DEF Alive
<1> QED
  BY <1>1, <1>3, <1>4, <1>7, <1>9, JobWaits DEF JobInv, JobOK

\* Lines behind the last one.
Block(from, to) == [i \in 1..(to + 1 - from) |-> from + i - 1]

\* Appending them keeps the lines in order when they follow the last one shown.
LEMMA LinesGrow ==
  ASSUME NEW t \in Seq(Nat), NEW last \in Nat, NEW from \in Nat, NEW to \in Nat, from <= to
  PROVE  /\ t \o Block(from, to) \in Seq(Nat)
         /\ from = last + 1 /\ Increasing(t) /\ (\A i \in 1..Len(t) : t[i] <= last)
              => /\ Increasing(t \o Block(from, to))
                 /\ \A i \in 1..Len(t \o Block(from, to)) : (t \o Block(from, to))[i] <= to
<1> DEFINE k == to + 1 - from
           s == t \o Block(from, to)
           u == Block(from, to)
<1>1. k \in Nat
  OBVIOUS
<1>0. u = [i \in 1..k |-> from + i - 1]
  BY DEF Block
<1> HIDE DEF k, u
<1>2. u \in Seq(Nat) /\ Len(u) = k /\ \A i \in 1..k : u[i] = from + i - 1
  <2>1. \A i \in 1..k : from + i - 1 \in Nat
    BY <1>1
  <2>2. u \in [1..k -> Nat]
    BY <1>0, <2>1
  <2>3. u \in Seq(Nat)
    BY <1>1, <2>2, SeqDef
  <2> QED
    BY <1>0, <1>1, <2>2, <2>3
<1>a. s = t \o u
  BY DEF u
<1> HIDE DEF s
<1>b. /\ t \o u \in Seq(Nat) /\ Len(t \o u) = Len(t) + Len(u)
      /\ \A i \in 1..(Len(t) + Len(u)) : (t \o u)[i] = IF i <= Len(t) THEN t[i] ELSE u[i - Len(t)]
  BY <1>2, ConcatProperties
<1>3. s \in Seq(Nat) /\ Len(s) = Len(t) + k /\ \A i \in 1..(Len(t) + k) : s[i] = IF i <= Len(t) THEN t[i] ELSE u[i - Len(t)]
  BY <1>2, <1>a, <1>b
<1>4. Len(t) \in Nat /\ \A i \in 1..Len(t) : t[i] \in Nat
  OBVIOUS
<1>5. ASSUME from = last + 1, Increasing(t), \A i \in 1..Len(t) : t[i] <= last
      PROVE  Increasing(s) /\ \A i \in 1..Len(s) : s[i] <= to
  <2>1. \A i \in 1..(Len(t) + k) : i <= Len(t) => s[i] = t[i] /\ s[i] <= last /\ s[i] \in Nat
    BY <1>1, <1>3, <1>4, <1>5
  <2>2. ASSUME NEW i \in 1..(Len(t) + k), ~(i <= Len(t)) PROVE s[i] = from + (i - Len(t)) - 1 /\ s[i] <= to /\ last < s[i]
    <3>1. i - Len(t) \in 1..k
      BY <1>1, <1>4, <2>2
    <3>2. s[i] = from + (i - Len(t)) - 1
      BY <1>2, <1>3, <2>2, <3>1
    <3> DEFINE x == i - Len(t)
    <3>3. x \in 1..k /\ s[i] = from + x - 1
      BY <3>1, <3>2
    <3> HIDE DEF x
    <3>4. s[i] <= to /\ last < s[i]
      BY <1>5, <3>3 DEF k
    <3> QED
      BY <3>2, <3>4
  <2>3. last <= to
    BY <1>5
  <2>4. \A i \in 1..Len(s) : s[i] <= to
    <3> SUFFICES ASSUME NEW i \in 1..Len(s) PROVE s[i] <= to
      OBVIOUS
    <3>1. i \in 1..(Len(t) + k)
      BY <1>3
    <3> QED
      BY <2>1, <2>2, <2>3, <3>1
  <2>5. ASSUME NEW i \in 1..Len(s), NEW j \in 1..Len(s), i < j PROVE s[i] < s[j]
    <3>1. CASE j <= Len(t)
      <4>1. i \in 1..Len(t) /\ j \in 1..Len(t)
        BY <1>3, <1>4, <2>5, <3>1
      <4>2. t[i] < t[j]
        BY <1>5, <2>5, <4>1 DEF Increasing
      <4>3. s[i] = t[i] /\ s[j] = t[j]
        BY <1>1, <1>3, <1>4, <4>1
      <4> QED
        BY <4>2, <4>3
    <3>2. CASE ~(j <= Len(t)) /\ i <= Len(t)
      <4>1. i \in 1..(Len(t) + k) /\ j \in 1..(Len(t) + k)
        BY <1>3
      <4>2. s[i] <= last /\ s[i] \in Nat /\ last < s[j] /\ s[j] = from + (j - Len(t)) - 1
        BY <2>1, <2>2, <3>2, <4>1
      <4> QED
        BY <1>4, <4>1, <4>2
    <3>3. CASE ~(j <= Len(t)) /\ ~(i <= Len(t))
      BY <1>1, <1>3, <1>4, <2>2, <2>5, <3>3
    <3> QED
      BY <3>1, <3>2, <3>3
  <2> QED
    BY <2>4, <2>5 DEF Increasing
<1> QED
  BY <1>3, <1>5 DEF s

\* The polls of the log.
LEMMA LogsKeep == \A c \in Slot : JobInv /\ (LogsArrive(c) \/ LogsFail(c)) => JobInv'
<1> SUFFICES ASSUME NEW c \in Slot, JobInv, LogsArrive(c) \/ LogsFail(c) PROVE JobInv'
  OBVIOUS
<1>1. f \in JobFs /\ net \in [Slot -> JobCalls] /\ LogsOnce(f, net)
  BY DEF JobInv, JobOK
<1>2. net[c].kind = "logs" /\ net' = Without(net, c) /\ mounted' = mounted /\ q' = q /\ db' = db
  BY DEF LogsArrive, LogsFail, Resolved, Rejected, Then
<1>3. f.era = 0 => /\ Increasing(f.lines) /\ (\A i \in 1..Len(f.lines) : f.lines[i] <= f.last)
                   /\ net[c].arg.era = 0 /\ (net[c].st = "answered" /\ net[c].ok => net[c].res.from = f.last + 1)
  BY <1>1, <1>2 DEF LogsOnce
<1>4. CASE ~net[c].live
  <2>1. f' = f
    BY <1>4 DEF LogsArrive, LogsFail, Then
  <2> QED
    BY <1>1, <1>2, <1>3, <1>4, <2>1, LogsEnd
<1>5. CASE net[c].live
  <2> DEFINE g == LogPolled(c)
  <2>1. /\ g \in JobFs /\ g.stat = f.stat /\ g.starting = f.starting /\ g.closing = f.closing /\ g.era = f.era
        /\ g.lines = f.lines /\ g.last = f.last /\ (g.log = f.log \/ g.log = "idle")
        /\ g.log = "fly" => net[c].arg.era # f.era
    BY <1>1 DEF LogPolled, JobFs
  <2> HIDE DEF g
  <2>2. CASE f' = g
    BY <1>2, <1>3, <2>1, <2>2, LogsEnd
  <2>3. CASE f' # g
    <3> DEFINE r == net[c].res
               s == g.lines \o [i \in 1..(r.to + 1 - r.from) |-> r.from + i - 1]
               h == [g EXCEPT !.lines = s, !.last = r.to]
    <3>1. LogsArrive(c)
      BY <1>5, <2>3 DEF LogsFail, Then, g
    <3>2. net[c].st = "answered" /\ net[c].ok
      BY <3>1 DEF LogsArrive, Resolved
    <3>3. net[c] \in LogCalls
      BY <1>1, <1>2, JobCallIs
    <3>4. r.from \in Nat /\ r.to \in Nat
      BY <3>2, <3>3 DEF LogCalls, CallsOf
    <3>5. f' = IF r.to < r.from THEN g ELSE h
      BY <1>5, <3>1 DEF LogsArrive, Then, g
    <3>6. f' = h /\ r.from <= r.to
      BY <2>3, <3>4, <3>5
    <3>7. f.lines \in Seq(Nat) /\ f.last \in Nat
      BY <1>1 DEF JobFs
    <3>s. s = f.lines \o Block(r.from, r.to)
      BY <2>1 DEF Block
    <3> HIDE DEF s, r
    <3>8. /\ s \in Seq(Nat)
          /\ r.from = f.last + 1 /\ Increasing(f.lines) /\ (\A i \in 1..Len(f.lines) : f.lines[i] <= f.last)
               => Increasing(s) /\ \A i \in 1..Len(s) : s[i] <= r.to
      <4> DEFINE t == f.lines
                 a == f.last
                 x == r.from
                 y == r.to
      <4>1. t \in Seq(Nat) /\ a \in Nat /\ x \in Nat /\ y \in Nat /\ x <= y /\ s = t \o Block(x, y)
        BY <3>4, <3>6, <3>7, <3>s
      <4> HIDE DEF t, a, x, y
      <4>2. /\ s \in Seq(Nat)
            /\ x = a + 1 /\ Increasing(t) /\ (\A i \in 1..Len(t) : t[i] <= a) => Increasing(s) /\ \A i \in 1..Len(s) : s[i] <= y
        BY <4>1, LinesGrow
      <4> QED
        BY <4>2 DEF t, a, x, y
    <3>9. /\ h \in JobFs /\ h.stat = f.stat /\ h.starting = f.starting /\ h.closing = f.closing /\ h.era = f.era
          /\ h.lines = s /\ h.last = r.to /\ h.log = g.log
      BY <2>1, <3>4, <3>8 DEF JobFs
    <3> HIDE DEF h
    <3>10. f.era = 0 => Increasing(h.lines) /\ \A i \in 1..Len(h.lines) : h.lines[i] <= h.last
      BY <1>3, <3>2, <3>8, <3>9 DEF r
    <3> QED
      BY <1>2, <2>1, <3>6, <3>9, <3>10, LogsEnd
  <2> QED
    BY <2>2, <2>3
<1> QED
  BY <1>4, <1>5

\* refetch() leaves one fetch in flight.
LEMMA Refetched ==
  ASSUME JobInv, page \in JobPages, NEW n \in [Slot -> JobCalls], FreeIn(n) # {}, Same(net, n, {"status"})
  PROVE  /\ Refetch(n) \in [Slot -> JobCalls] /\ Flying(Refetch(n), "status") /\ StatusOnce(q, db, Refetch(n))
         /\ \A K \in SUBSET (JobKinds \ {"status"}) : Same(n, Refetch(n), K)
         /\ \A x, y \in FreeIn(n) : x # y => FreeIn(Refetch(n)) # {}
<1>1. StatusOnce(q, db, net) /\ q.ver <= db.ver /\ (StatusFlying <=> Flying(net, "status"))
  BY JobWaits
<1>2. CASE StatusFlying /\ ~q.have
  <2>1. Refetch(n) = n
    BY <1>2 DEF Refetch
  <2>2. Flying(n, "status") /\ StatusOnce(q, db, n)
    BY <1>1, <1>2, SameParts
  <2> QED
    BY <2>1, <2>2 DEF Same
<1>3. CASE ~(StatusFlying /\ ~q.have)
  <2>1. Refetch(n) = AskStatus(n, page)
    BY <1>3 DEF Refetch
  <2> QED
    BY <1>1, <2>1, StatusAsked
<1> QED
  BY <1>2, <1>3

\* The answers to a start of the pipeline.
LEMMA TriggerKeeps ==
  \A c \in Slot : JobInv /\ page \in JobPages /\ (ProcessingStarted(c) \/ ProcessingStartFails(c)) => JobInv'
<1> SUFFICES ASSUME NEW c \in Slot, JobInv, page \in JobPages, ProcessingStarted(c) \/ ProcessingStartFails(c) PROVE JobInv'
  OBVIOUS
<1> DEFINE n == Without(net, c)
<1>1. q \in JobQs /\ f \in JobFs /\ net \in [Slot -> JobCalls] /\ StatusOnce(q, db, net)
  BY JobWaits
<1>2. /\ net[c].kind = "trigger" /\ mounted' = mounted /\ q' = q /\ db' = db
  BY DEF ProcessingStarted, ProcessingStartFails, Resolved, Rejected, Then
<1>3. n \in [Slot -> JobCalls] /\ Same(net, n, {"logs"}) /\ Same(net, n, {"status"}) /\ FreeIn(n) # {}
  BY <1>1, <1>2, OthersStay DEF JobKinds
<1>4. f.closing => Held(n, "close")
  BY <1>1, <1>2, JobWaits, HeldStays DEF JobKinds
<1>5. ~net[c].live /\ f.starting = "post" => Held(n, "trigger")
  BY <1>1, JobWaits, HeldStays DEF JobKinds
<1>6. f.stat = "fly" \/ f.starting = "reload" => Flying(n, "status")
  BY <1>3, JobWaits, SameParts
<1>7. StatusOnce(q, db, n)
  BY <1>1, <1>3, SameParts
<1> HIDE DEF n
<1>8. CASE ~net[c].live
  <2>1. f' = f /\ net' = n
    BY <1>8 DEF ProcessingStarted, ProcessingStartFails, Then, n
  <2> QED
    BY <1>1, <1>2, <1>3, <1>4, <1>5, <1>6, <1>7, <1>8, <2>1, JobStep DEF LogKept
<1>9. CASE net[c].live /\ ProcessingStarted(c)
  <2> DEFINE t == IF StatusFlying /\ q.have THEN "idle" ELSE f.stat
             b == IF page = "hub" THEN "no" ELSE "reload"
             h == [f EXCEPT !.starting = b, !.stat = t]
             m == Refetch(n)
  <2>1. f' = h /\ net' = m
    BY <1>9 DEF ProcessingStarted, Then, n
  <2>2. t \in {"idle", "fly"} /\ b \in {"no", "reload"}
    BY <1>1 DEF JobFs
  <2> HIDE DEF t, b
  <2>3. h \in JobFs /\ h.starting # "post" /\ h.closing = f.closing /\ LogKept(f, h)
    BY <1>1, <2>2 DEF JobFs, LogKept
  <2> HIDE DEF h
  <2>4. m \in [Slot -> JobCalls] /\ Flying(m, "status") /\ StatusOnce(q, db, m) /\ Same(n, m, {"logs"}) /\ Same(n, m, {"close"})
    BY <1>3, Refetched DEF JobKinds
  <2> HIDE DEF m
  <2>5. Same(net, m, {"logs"})
    BY <1>3, <2>4, SameChain
  <2>6. f.closing => Held(m, "close")
    BY <1>4, <2>4, SameParts
  <2> QED
    BY <1>1, <1>2, <2>1, <2>3, <2>4, <2>5, <2>6, JobStep
<1>10. CASE net[c].live /\ ProcessingStartFails(c)
  <2> DEFINE h == [f EXCEPT !.starting = "no"]
  <2>1. f' = h /\ net' = n
    BY <1>10 DEF ProcessingStartFails, Then, n
  <2>2. h \in JobFs /\ h.starting = "no" /\ h.closing = f.closing /\ h.stat = f.stat /\ LogKept(f, h)
    BY <1>1 DEF JobFs, LogKept
  <2> HIDE DEF h
  <2> QED
    BY <1>1, <1>2, <1>3, <1>4, <1>6, <1>7, <2>1, <2>2, JobStep
<1> QED
  BY <1>8, <1>9, <1>10

\* The answers to closing the incident.
LEMMA CloseKeeps == \A c \in Slot : JobInv /\ (IncidentClosed(c) \/ CloseFails(c)) => JobInv'
<1> SUFFICES ASSUME NEW c \in Slot, JobInv, IncidentClosed(c) \/ CloseFails(c) PROVE JobInv'
  OBVIOUS
<1> DEFINE n == Without(net, c)
           m == Adds(n, "incident", Nothing)
<1>1. q \in JobQs /\ f \in JobFs /\ net \in [Slot -> JobCalls] /\ StatusOnce(q, db, net)
  BY JobWaits
<1>2. /\ net[c].kind = "close" /\ mounted' = mounted /\ q' = q /\ db' = db
      /\ net' = n \/ net' = m
  BY DEF IncidentClosed, CloseFails, Resolved, Rejected, Then, Adds
<1>3. n \in [Slot -> JobCalls] /\ Same(net, n, {"logs"}) /\ Same(net, n, {"status"}) /\ FreeIn(n) # {}
  BY <1>1, <1>2, OthersStay DEF JobKinds
<1>4. f.starting = "post" => Held(n, "trigger")
  BY <1>1, <1>2, JobWaits, HeldStays DEF JobKinds
<1>5. ~net[c].live /\ f.closing => Held(n, "close")
  BY <1>1, JobWaits, HeldStays DEF JobKinds
<1>6. f.stat = "fly" \/ f.starting = "reload" => Flying(n, "status")
  BY <1>3, JobWaits, SameParts
<1>7. StatusOnce(q, db, n)
  BY <1>1, <1>3, SameParts
<1> HIDE DEF n
<1>8. CASE ~net[c].live
  <2>1. f' = f /\ net' = n
    BY <1>8 DEF IncidentClosed, CloseFails, Then, n
  <2> QED
    BY <1>1, <1>2, <1>3, <1>4, <1>5, <1>6, <1>7, <1>8, <2>1, JobStep DEF LogKept
<1>9. CASE net[c].live
  <2> DEFINE h == [f EXCEPT !.closing = FALSE]
  <2>1. f' = h
    BY <1>9 DEF IncidentClosed, CloseFails, Then
  <2>2. h \in JobFs /\ ~h.closing /\ h.starting = f.starting /\ h.stat = f.stat /\ LogKept(f, h)
    BY <1>1 DEF JobFs, LogKept
  <2> HIDE DEF h
  <2>3. m \in [Slot -> JobCalls] /\ Same(n, m, {"logs"}) /\ Same(n, m, {"status"}) /\ Same(n, m, {"trigger"})
    BY <1>3, OthersStay, JobAsks DEF JobKinds
  <2> HIDE DEF m
  <2>4. net' \in [Slot -> JobCalls] /\ Same(n, net', {"logs"}) /\ Same(n, net', {"status"}) /\ Same(n, net', {"trigger"})
    BY <1>2, <1>3, <2>3 DEF Same
  <2>5. Same(net, net', {"logs"})
    BY <1>3, <2>4, SameChain
  <2>6. /\ f.stat = "fly" \/ f.starting = "reload" => Flying(net', "status")
        /\ f.starting = "post" => Held(net', "trigger")
        /\ StatusOnce(q, db, net')
    BY <1>4, <1>6, <1>7, <2>4, SameParts
  <2> QED
    BY <1>1, <1>2, <2>1, <2>2, <2>4, <2>5, <2>6, JobStep
<1> QED
  BY <1>8, <1>9

\* A button sends its request.
LEMMA ButtonKeeps ==
  ASSUME JobInv, NEW k \in {"trigger", "close"}, NEW a, Sent(k, a) \in JobCalls, NEW g \in JobFs, Calls(g, k, a),
         g.stat = f.stat, g.log = f.log, g.era = f.era, g.lines = f.lines, g.last = f.last,
         g.starting = f.starting \/ (k = "trigger" /\ g.starting = "post"), g.closing => f.closing \/ k = "close"
  PROVE  JobInv'
<1> DEFINE n == Adds(net, k, a)
<1>1. q \in JobQs /\ f \in JobFs /\ net \in [Slot -> JobCalls] /\ StatusOnce(q, db, net)
  BY JobWaits
<1>2. f' = g /\ net' = n /\ mounted' = mounted /\ q' = q /\ db' = db /\ FreeIn(net) # {}
  BY RoomIs DEF Calls, Room, Adds
<1>3. n \in [Slot -> JobCalls] /\ \A K \in SUBSET (JobKinds \ {k}) : Same(net, n, K)
  BY <1>1, <1>2, OthersStay DEF JobKinds
<1>4. PICK s \in Slot : n[s] = Sent(k, a)
  BY <1>1, <1>2, OthersStay DEF JobKinds
<1>5. Held(n, k)
  BY <1>4, HeldCallIs DEF Held
<1> HIDE DEF n
<1>6. Same(net, n, {"logs"}) /\ Same(net, n, {"status"})
  BY <1>3 DEF JobKinds
<1>7. (k = "close" => Same(net, n, {"trigger"})) /\ (k = "trigger" => Same(net, n, {"close"}))
  BY <1>3 DEF JobKinds
<1>8. StatusOnce(q, db, n) /\ (f.stat = "fly" \/ f.starting = "reload" => Flying(n, "status"))
  BY <1>1, <1>6, JobWaits, SameParts
<1>9. /\ f.starting = "post" \/ k = "trigger" => Held(n, "trigger")
      /\ f.closing \/ k = "close" => Held(n, "close")
  BY <1>5, <1>7, JobWaits, SameParts
<1>10. LogKept(f, g)
  BY DEF LogKept
<1> QED
  BY <1>1, <1>2, <1>3, <1>6, <1>8, <1>9, <1>10, JobStep

\* The buttons.
LEMMA ButtonsKeep == JobInv /\ (activateAnalytics \/ startProcessing \/ reprocess \/ handleCloseIncident) => JobInv'
<1> SUFFICES ASSUME JobInv, activateAnalytics \/ startProcessing \/ reprocess \/ handleCloseIncident PROVE JobInv'
  OBVIOUS
<1>1. f \in JobFs
  BY JobWaits
<1>2. ASSUME NEW v \in {"plain", "force"}, Calls([f EXCEPT !.starting = "post"], "trigger", v) PROVE JobInv'
  <2> DEFINE g == [f EXCEPT !.starting = "post"]
  <2>1. /\ g \in JobFs /\ g.stat = f.stat /\ g.log = f.log /\ g.era = f.era /\ g.lines = f.lines /\ g.last = f.last
        /\ g.starting = "post" /\ g.closing = f.closing
    BY <1>1 DEF JobFs
  <2>2. Calls(g, "trigger", v) /\ Sent("trigger", v) \in JobCalls
    BY <1>2, JobAsks
  <2> HIDE DEF g
  <2> QED
    BY <2>1, <2>2, ButtonKeeps
<1>3. CASE handleCloseIncident
  <2> DEFINE g == [f EXCEPT !.closing = TRUE]
  <2>1. /\ g \in JobFs /\ g.stat = f.stat /\ g.log = f.log /\ g.era = f.era /\ g.lines = f.lines /\ g.last = f.last
        /\ g.starting = f.starting
    BY <1>1 DEF JobFs
  <2>2. Calls(g, "close", Nothing) /\ Sent("close", Nothing) \in JobCalls
    BY <1>3, JobAsks DEF handleCloseIncident
  <2> HIDE DEF g
  <2> QED
    BY <2>1, <2>2, ButtonKeeps
<1>4. activateAnalytics \/ startProcessing \/ reprocess =>
        \E v \in {"plain", "force"} : Calls([f EXCEPT !.starting = "post"], "trigger", v)
  BY DEF activateAnalytics, startProcessing, reprocess
<1> QED
  BY <1>2, <1>3, <1>4

\* The poller of the status.
LEMMA StatusPollKeeps == JobInv /\ StatusPoll => JobInv'
<1> SUFFICES ASSUME JobInv, StatusPoll PROVE JobInv'
  OBVIOUS
<1> DEFINE n == Refetch(net)
           m == Adds(n, "incident", Nothing)
           g == [f EXCEPT !.stat = "fly"]
<1>1. q \in JobQs /\ f \in JobFs /\ net \in [Slot -> JobCalls]
  BY JobWaits
<1>2. /\ page \in JobPages /\ f' = g /\ mounted' = mounted /\ q' = q /\ db' = db
      /\ net' = IF page = "hub" THEN m ELSE n
      /\ Cardinality(FreeIn(net)) >= IF page = "hub" THEN 2 ELSE 1
  BY DEF StatusPoll, Adds, Room
<1>3. FreeIn(net) # {} /\ (page = "hub" => \E x, y \in FreeIn(net) : x # y)
  BY <1>2, RoomIs
<1>4. Same(net, net, {"status"})
  BY DEF Same
<1>5. /\ n \in [Slot -> JobCalls] /\ Flying(n, "status") /\ StatusOnce(q, db, n)
      /\ Same(net, n, {"logs"}) /\ Same(net, n, {"trigger"}) /\ Same(net, n, {"close"})
      /\ page = "hub" => FreeIn(n) # {}
  BY <1>1, <1>2, <1>3, <1>4, Refetched DEF JobKinds
<1>6. g \in JobFs /\ g.starting = f.starting /\ g.closing = f.closing /\ LogKept(f, g)
  BY <1>1 DEF JobFs, LogKept
<1> HIDE DEF n, g
<1>7. page = "hub" => /\ m \in [Slot -> JobCalls] /\ Same(n, m, {"status"})
                      /\ Same(n, m, {"logs"}) /\ Same(n, m, {"trigger"}) /\ Same(n, m, {"close"})
  BY <1>5, OthersStay, JobAsks DEF JobKinds
<1> HIDE DEF m
<1>8. net' \in [Slot -> JobCalls] /\ Same(n, net', {"status"}) /\ Same(n, net', {"logs"}) /\ Same(n, net', {"trigger"})
      /\ Same(n, net', {"close"})
  BY <1>2, <1>5, <1>7 DEF Same
<1>9. Same(net, net', {"logs"}) /\ Same(net, net', {"trigger"}) /\ Same(net, net', {"close"})
  BY <1>5, <1>8, SameChain
<1>10. Flying(net', "status") /\ StatusOnce(q, db, net')
  BY <1>5, <1>8, SameParts
<1>11. (f.starting = "post" => Held(net', "trigger")) /\ (f.closing => Held(net', "close"))
  BY <1>9, JobWaits, SameParts
<1> QED
  BY <1>1, <1>2, <1>6, <1>8, <1>9, <1>10, <1>11, JobStep

\* The poller of the log.
LEMMA LogPollKeeps == JobInv /\ LogPoll => JobInv'
<1> SUFFICES ASSUME JobInv, LogPoll PROVE JobInv'
  OBVIOUS
<1> DEFINE a == [since |-> f.last, era |-> f.era]
           n == Adds(net, "logs", a)
           g == [f EXCEPT !.log = "fly"]
<1>1. q \in JobQs /\ f \in JobFs /\ net \in [Slot -> JobCalls] /\ LogsOnce(f, net) /\ Alive(f, net) /\ db \in JobDbs
      /\ StatusOnce(q, db, net)
  BY DEF JobInv, JobOK
<1>2. f' = g /\ net' = n /\ mounted' = mounted /\ q' = q /\ db' = db /\ FreeIn(net) # {} /\ f.log = "idle"
  BY RoomIs DEF LogPoll, Adds, Room
<1>3. f.last \in Nat /\ f.era \in Nat
  BY <1>1 DEF JobFs
<1>4. Sent("logs", a) \in JobCalls /\ a.since = f.last /\ a.era = f.era
  BY <1>3, JobAsks
<1> HIDE DEF a
<1>5. n \in [Slot -> JobCalls] /\ \A K \in SUBSET (JobKinds \ {"logs"}) : Same(net, n, K)
  BY <1>1, <1>2, <1>4, OthersStay DEF JobKinds
<1>6. PICK s \in Slot : n[s] = Sent("logs", a) /\ \A c \in Slot : c # s => n[c] = net[c]
  BY <1>1, <1>2, <1>4, OthersStay DEF JobKinds
<1>7. n[s].kind = "logs" /\ n[s].st = "sent" /\ n[s].arg = a /\ n[s].live
  BY <1>6, HeldCallIs
<1>8. /\ g \in JobFs /\ g.stat = f.stat /\ g.starting = f.starting /\ g.closing = f.closing /\ g.era = f.era
      /\ g.lines = f.lines /\ g.last = f.last /\ g.log = "fly"
  BY <1>1 DEF JobFs
<1> HIDE DEF n, g
<1>9. StatusOnce(q, db, n)
  BY <1>1, <1>5, SameParts DEF JobKinds
<1>10. LogsOnce(g, n)
  <2> SUFFICES ASSUME f.era = 0
               PROVE  /\ Increasing(g.lines) /\ \A i \in 1..Len(g.lines) : g.lines[i] <= g.last
                      /\ \A c \in Slot : n[c].kind = "logs" => c = s
    BY <1>4, <1>7, <1>8 DEF LogsOnce
  <2>1. \A c \in Slot : net[c].kind # "logs"
    BY <1>1, <1>2 DEF LogsOnce
  <2> QED
    BY <1>1, <1>6, <1>8, <2>1 DEF LogsOnce
<1>11. Alive(g, n)
  <2>1. /\ Flying(net, "status") => Flying(n, "status")
        /\ Held(net, "trigger") => Held(n, "trigger")
        /\ Held(net, "close") => Held(n, "close")
    BY <1>5, SameParts DEF JobKinds
  <2> QED
    BY <1>1, <1>4, <1>7, <1>8, <2>1 DEF Alive
<1>12. JobOK(g, q, db, n)
  BY <1>1, <1>5, <1>8, <1>9, <1>10, <1>11 DEF JobOK
<1> QED
  BY <1>2, <1>12 DEF JobInv

\* A slot without a call stays one.
LEMMA NoCallDead == [NoCall EXCEPT !.live = FALSE] = NoCall
<1> DEFINE no == FALSE
<1>1. no \in BOOLEAN
  OBVIOUS
<1>2. NoCall = [st |-> "idle", kind |-> "none", arg |-> Nothing, try |-> 0, ok |-> no, res |-> Nothing, live |-> no]
  BY Zenon DEF NoCall
<1> HIDE DEF no
<1>3. [NoCall EXCEPT !.live = no] = NoCall
  BY SMT, <1>1, <1>2
<1> QED
  BY Zenon, <1>3 DEF no

\* A call whose page goes away is the call it was.
LEMMA OrphanedCall ==
  ASSUME NEW m \in JobCalls
  PROVE  /\ [m EXCEPT !.live = FALSE] \in JobCalls
         /\ m.kind = "status" => LET k == [m EXCEPT !.live = FALSE] IN k.st = m.st /\ k.ok = m.ok /\ k.res = m.res
         /\ [m EXCEPT !.live = FALSE].kind = m.kind
<1> DEFINE k == [m EXCEPT !.live = FALSE]
<1>1. ASSUME NEW K, NEW A, NEW R, m \in CallsOf(K, A, R)
      PROVE  k \in CallsOf(K, A, R) /\ k.st = m.st /\ k.ok = m.ok /\ k.res = m.res /\ k.kind = m.kind
  <2>1. k \in CallsOf(K, A, R)
    BY Zenon, <1>1, CallMoves
  <2>2. m \in [st : {"sent", "answered", "broken"}, kind : K, arg : A, try : 1..2, ok : BOOLEAN,
               res : R \cup {Nothing, "absent"}, live : BOOLEAN]
    BY <1>1 DEF CallsOf
  <2> QED
    BY <2>1, <2>2
<1>2. m = NoCall => k = NoCall
  BY Zenon, NoCallDead
<1> HIDE DEF k
<1>3. CASE m = NoCall
  BY <1>2, <1>3, NoCallIs DEF JobCalls, k
<1>4. CASE m \in StatusCalls
  BY <1>1, <1>4 DEF JobCalls, StatusCalls, k
<1>5. CASE m \in LogCalls
  BY <1>1, <1>5 DEF JobCalls, LogCalls, k
<1>6. CASE m \in OtherCalls
  BY <1>1, <1>6 DEF JobCalls, OtherCalls, k
<1> QED
  BY <1>3, <1>4, <1>5, <1>6 DEF JobCalls

\* One page for the other: it starts anew, with the calls that went on.
LEMMA SwitchKeeps == JobInv /\ SwitchPage => JobInv'
<1> SUFFICES ASSUME JobInv, SwitchPage PROVE JobInv'
  OBVIOUS
<1> DEFINE n == [c \in Slot |-> IF net[c].kind \in {"incident", "logs"} THEN NoCall ELSE Orphaned(net)[c]]
           m == IF page' = "hub" THEN Adds(n, "incident", Nothing) ELSE n
<1>1. mounted = TRUE /\ q \in JobQs /\ db \in JobDbs /\ net \in [Slot -> JobCalls] /\ StatusOnce(q, db, net) /\ q.ver <= db.ver
  BY JobWaits
<1>2. page' \in JobPages /\ f' = JobF /\ mounted' = mounted /\ q' = q /\ db' = db /\ Cardinality(FreeIn(n)) > 1
  BY DEF SwitchPage, JobPages
<1>3. net' = AskStatus(m, page') \/ net' = m
  BY DEF SwitchPage, Mounts, Adds
<1>4. \A c \in Slot : n[c] = NoCall \/ (net[c].kind \notin {"incident", "logs"} /\ n[c] = [net[c] EXCEPT !.live = FALSE])
  BY DEF Orphaned
<1>5. n \in [Slot -> JobCalls]
  <2>1. \A c \in Slot : n[c] \in JobCalls
    <3> SUFFICES ASSUME NEW c \in Slot PROVE n[c] \in JobCalls
      OBVIOUS
    <3> HIDE DEF n
    <3>1. net[c] \in JobCalls
      BY <1>1
    <3>2. [net[c] EXCEPT !.live = FALSE] \in JobCalls
      BY Zenon, <3>1, OrphanedCall
    <3> QED
      BY <1>4, <3>2 DEF JobCalls
  <2> QED
    BY Zenon, <2>1
<1> HIDE DEF n
<1>6. ASSUME NEW c \in Slot, n[c].kind # "none"
      PROVE  /\ n[c].kind = net[c].kind /\ n[c].kind \notin {"incident", "logs"}
             /\ n[c].kind = "status" => n[c].st = net[c].st /\ n[c].ok = net[c].ok /\ n[c].res = net[c].res
  <2>1. net[c].kind \notin {"incident", "logs"} /\ n[c] = [net[c] EXCEPT !.live = FALSE]
    BY <1>4, <1>6, NoCallIs
  <2> DEFINE x == net[c]
  <2>2. x \in JobCalls
    BY <1>1
  <2> HIDE DEF x
  <2>3. /\ [x EXCEPT !.live = FALSE].kind = x.kind
        /\ x.kind = "status" => /\ [x EXCEPT !.live = FALSE].st = x.st /\ [x EXCEPT !.live = FALSE].ok = x.ok
                                /\ [x EXCEPT !.live = FALSE].res = x.res
    BY <2>2, OrphanedCall
  <2> QED
    BY <2>1, <2>3 DEF x
<1>7. StatusOnce(q, db, n)
  <2>1. ASSUME NEW c \in Slot, n[c].kind = "status"
        PROVE  /\ net[c].kind = "status" /\ n[c].st = net[c].st /\ n[c].ok = net[c].ok /\ n[c].res = net[c].res
    BY <1>6, <2>1
  <2> QED
    BY <1>1, <2>1 DEF StatusOnce
<1>8. PICK x \in FreeIn(n), y \in FreeIn(n) : x # y
  <2> DEFINE k == Cardinality(FreeIn(n))
  <2>1. k \in Nat
    <3>1. FreeIn(n) \in SUBSET Slot
      BY DEF FreeIn
    <3>2. IsFiniteSet(FreeIn(n))
      BY <3>1, CallsAssumption, FS_Subset
    <3> QED
      BY <3>2, FS_CardinalityType
  <2>2. k >= 2
    BY <1>2, <2>1
  <2> QED
    BY <2>2, RoomIs
<1>9. m \in [Slot -> JobCalls] /\ Same(n, m, {"logs"}) /\ Same(n, m, {"status"}) /\ FreeIn(m) # {}
  <2>1. CASE page' # "hub"
    BY <1>5, <1>8, <2>1 DEF Same
  <2>2. CASE page' = "hub"
    <3> DEFINE o == Adds(n, "incident", Nothing)
    <3>1. m = o
      BY <2>2
    <3>2. o \in [Slot -> JobCalls] /\ Same(n, o, {"logs"}) /\ Same(n, o, {"status"})
      BY <1>5, <1>8, OthersStay, JobAsks DEF JobKinds
    <3>3. PICK s \in Slot : \A c \in Slot : c # s => o[c] = n[c]
      BY <1>5, <1>8, OthersStay, JobAsks DEF JobKinds
    <3> HIDE DEF o
    <3>4. \A c \in FreeIn(n) : c # s => c \in FreeIn(o)
      BY <3>3 DEF FreeIn
    <3>5. FreeIn(o) # {}
      BY <1>8, <3>4
    <3> QED
      BY <3>1, <3>2, <3>5
  <2> QED
    BY <2>1, <2>2
<1> HIDE DEF m
<1>10. StatusOnce(q, db, m)
  BY <1>7, <1>9, SameParts
<1>11. net' \in [Slot -> JobCalls] /\ Same(m, net', {"logs"}) /\ StatusOnce(q, db, net')
  <2>1. CASE net' = m
    BY <1>9, <1>10, <2>1 DEF Same
  <2>2. CASE net' = AskStatus(m, page')
    BY <1>1, <1>2, <1>9, <2>2, StatusAsked DEF JobKinds
  <2> QED
    BY <1>3, <2>1, <2>2
<1>12. \A c \in Slot : net'[c].kind # "logs"
  <2>1. Same(n, net', {"logs"})
    BY <1>9, <1>11, SameChain
  <2>2. \A c \in Slot : net'[c].kind = "logs" => n[c].kind = "logs"
    BY <2>1 DEF Same
  <2> QED
    BY <1>6, <2>2
<1>13. /\ JobF \in JobFs /\ JobF.stat = "idle" /\ JobF.log = "idle" /\ JobF.starting = "no" /\ ~JobF.closing /\ JobF.lines = <<>>
  BY EmptyQueue DEF JobF, JobFs
<1>14. LogsOnce(JobF, net') /\ Alive(JobF, net')
  BY <1>12, <1>13 DEF LogsOnce, Alive, Increasing
<1> QED
  BY <1>1, <1>2, <1>11, <1>13, <1>14 DEF JobInv, JobOK

\* The pages at the start.
LEMMA JobStarts == FrameInit /\ q = NoData /\ JobInit => JobInv
<1> SUFFICES ASSUME FrameInit, q = NoData, JobInit PROVE JobInv
  OBVIOUS
<1> DEFINE o == [c \in Slot |-> NoCall]
           n == Adds(o, "status", Arg(page, "first"))
           m == Adds(n, "incident", Nothing)
<1>1. mounted = TRUE /\ page \in JobPages /\ f = JobF /\ (net = m \/ net = n)
  BY DEF FrameInit, JobInit, Adds
<1>2. PICK i \in {"collecting", "complete"}, p \in {"none", "RUNNING"} :
        db = [ver |-> 0, rows |-> [inc |-> i, proc |-> p, tl |-> "none", logs |-> 1]]
  BY DEF JobInit
<1>3. db \in JobDbs /\ db.ver = 0
  BY <1>2 DEF JobDbs, JobRows, Procs
<1>4. q \in JobQs /\ q.ver = 0
  BY DEF NoData, JobQs
<1>5. \A c \in Slot : o[c] = NoCall /\ o[c].st = "idle" /\ o[c].kind = "none"
  BY NoCallIs
<1>6. o \in [Slot -> JobCalls] /\ FreeIn(o) # {}
  <2>1. o \in [Slot -> JobCalls]
    BY DEF JobCalls
  <2> HIDE DEF o
  <2> QED
    BY <1>5, <2>1, CallsAssumption DEF FreeIn
<1> HIDE DEF o
<1>7. Sent("status", Arg(page, "first")) \in JobCalls /\ Sent("incident", Nothing) \in JobCalls
  BY <1>1, JobAsks
<1>8. /\ Sent("status", Arg(page, "first")).kind = "status" /\ Sent("status", Arg(page, "first")).st = "sent"
      /\ Sent("incident", Nothing).kind = "incident"
  BY HeldCallIs
<1>9. n \in [Slot -> JobCalls] /\ \E s \in Slot : /\ n[s] = Sent("status", Arg(page, "first"))
                                               /\ \A c \in Slot : c # s => n[c] = o[c]
  BY <1>6, <1>7, OthersStay DEF JobKinds
<1> DEFINE x == Sent("status", Arg(page, "first"))
<1>10. PICK s \in Slot : n[s] = x /\ \A c \in Slot : c # s => n[c] = o[c]
  BY <1>9
<1>11. x.kind = "status" /\ x.st = "sent"
  BY <1>8
<1> HIDE DEF n, x
<1>12. m \in [Slot -> JobCalls] /\ \A c \in Slot : m[c] = n[c] \/ m[c].kind = "incident"
  BY <1>7, <1>8, <1>9 DEF Adds, With, Sent
<1> HIDE DEF m
<1>13. net \in [Slot -> JobCalls] /\ \A c \in Slot : net[c] = n[c] \/ net[c].kind = "incident"
  BY <1>1, <1>9, <1>12
<1>14. \A c \in Slot : /\ net[c].kind # "logs"
                       /\ net[c].kind = "status" => c = s /\ net[c].st = "sent"
  BY <1>5, <1>10, <1>11, <1>13
<1>15. StatusOnce(q, db, net)
  BY <1>3, <1>4, <1>14 DEF StatusOnce
<1>16. /\ JobF \in JobFs /\ JobF.stat = "idle" /\ JobF.log = "idle" /\ JobF.starting = "no" /\ ~JobF.closing /\ JobF.lines = <<>>
  BY EmptyQueue DEF JobF, JobFs
<1>17. LogsOnce(JobF, net) /\ Alive(JobF, net)
  BY <1>14, <1>16 DEF LogsOnce, Alive, Increasing
<1> QED
  BY <1>1, <1>3, <1>4, <1>13, <1>15, <1>16, <1>17 DEF JobInv, JobOK

\* On a page of the job only its own steps happen, and they keep its invariant.
LEMMA JobNext == page \in JobPages /\ JobInv /\ [IncidentNext]_frame => JobInv'
<1> SUFFICES ASSUME page \in JobPages, JobInv, [IncidentNext]_frame PROVE JobInv'
  OBVIOUS
<1>1. page \notin SearchPage /\ page # "timeline" /\ page # "console"
  BY DEF JobPages, SearchPage
<1>2. net \in [Slot -> JobCalls]
  BY JobWaits
<1>3. \A c \in Slot : ~Waiting(c, SearchKinds) /\ ~Waiting(c, TimelineKinds) /\ ~Waiting(c, {"list"})
  <2>1. \A c \in Slot : net[c].kind \in {"none"} \cup JobKinds
    BY <1>2, JobCallIs
  <2> QED
    BY <2>1 DEF Waiting, SearchKinds, TimelineKinds, JobKinds
<1>4. ASSUME NEW c \in Slot,
             \/ ServeList(c) \/ JobServed(c) \/ SearchServed(c) \/ TimelineServed(c)
             \/ JobContinued(c) \/ SearchContinued(c) \/ TimelineContinued(c)
             \/ FetchAgain(c) \/ Retries(c) \/ Breaks(c) \/ Unserved(c) \/ Outage(c)
      PROVE  JobInv'
  <2>1. JobServed(c) \/ JobContinued(c) \/ Retries(c) \/ Breaks(c) \/ Unserved(c)
    BY <1>3, <1>4, CallPage
  <2>2. JobContinued(c) => JobInv'
    BY StatusKeeps, IncidentKeeps, LogsKeep, TriggerKeeps, CloseKeeps DEF JobContinued
  <2> QED
    BY <2>1, <2>2, JobServedKeeps, JobNetKeeps
<1>5. CASE JobUser
  BY <1>5, JobMovesKeep, StatusPollKeeps, LogPollKeeps, ButtonsKeep, SwitchKeeps DEF JobUser
<1>6. CASE UNCHANGED frame
  BY <1>6 DEF frame, JobInv
<1> QED
  BY <1>1, <1>4, <1>5, <1>6, SearchUserPage, TimelineUserPage, ConsoleStepPage DEF IncidentNext

\* On its pages JobInv holds.
JobPage == page \in JobPages => JobInv

\* It holds in every state in which the hub or the processing status is the page.
LEMMA JobPageHolds == IncidentSpec => []JobPage
<1>1. IncidentInit => JobPage
  <2> SUFFICES ASSUME IncidentInit, page \in JobPages PROVE JobInv
    BY DEF JobPage
  <2>1. FrameInit /\ q = NoData /\ JobInit
    BY DEF IncidentInit, SearchInit, TimelineInit, ConsoleInit, JobPages, SearchPage
  <2> QED
    BY <2>1, JobStarts
<1>2. JobPage /\ [IncidentNext]_frame => JobPage'
  <2> SUFFICES ASSUME JobPage, [IncidentNext]_frame, page' \in JobPages PROVE JobInv'
    BY DEF JobPage
  <2>1. page \in JobPages
    BY PageStays
  <2> QED
    BY <2>1, JobNext DEF JobPage
<1> QED
  BY <1>1, <1>2, PTL DEF IncidentSpec

\* ProcessingStatus.tsx: the log polls show a line once and in order while one
\* run is watched, whatever polls failed, timed out or were tried again; for
\* any number of calls, faults and lines.
THEOREM LogLinesOnceHolds == IncidentSpec => []LogLinesOnce
<1>1. JobPage => LogLinesOnce
  <2> SUFFICES ASSUME JobInv, f.era = 0 PROVE \A i, j \in DOMAIN f.lines : i < j => f.lines[i] < f.lines[j]
    BY DEF JobPage, LogLinesOnce, OnJob
  <2>1. LogsOnce(f, net) /\ f.lines \in Seq(Nat)
    BY DEF JobInv, JobOK, JobFs
  <2>2. Increasing(f.lines)
    BY <2>1 DEF LogsOnce
  <2>3. DOMAIN f.lines = 1..Len(f.lines)
    BY <2>1
  <2> QED
    BY <2>2, <2>3 DEF Increasing
<1> QED
  BY <1>1, JobPageHolds, PTL

\* useAdaptivePolling and the buttons of the two pages: whoever waits, waits
\* for a request in flight.
LEMMA PollersAliveHolds == IncidentSpec => []PollersAlive
<1>1. JobPage => PollersAlive
  <2> SUFFICES ASSUME JobInv
               PROVE  /\ f.stat = "fly" => StatusFlying
                      /\ f.log = "fly" => \E c \in Slot : net[c].kind = "logs" /\ net[c].live /\ net[c].arg.era = f.era
                      /\ f.starting = "post" => Pending("trigger")
                      /\ f.starting = "reload" => StatusFlying
                      /\ f.closing => Pending("close")
    BY DEF JobPage, PollersAlive, OnJob
  <2>1. Alive(f, net) /\ net \in [Slot -> JobCalls]
    BY DEF JobInv, JobOK
  <2>2. \A k \in JobKinds : Held(net, k) => Pending(k)
    <3>1. \A c \in Slot : net[c].kind \in JobKinds => net[c].st # "idle"
      BY <2>1, JobCallIs DEF JobKinds
    <3> QED
      BY <3>1 DEF Held, Pending
  <2> QED
    BY <2>1, <2>2, JobWaits DEF Alive, JobKinds
<1> QED
  BY <1>1, JobPageHolds, PTL

\* Calls of any kinds: one leaves, another takes a free slot, the rest stay.
Calling(S) == NoCall \in S /\ \A k \in S : k.st = "idle" => k.kind = "none"

\* Without and Adds change one slot, and leave the calls of other kinds alone.
LEMMA RestStays ==
  ASSUME NEW S, Calling(S), NEW n \in [Slot -> S]
  PROVE  /\ \A c \in Slot : Without(n, c) \in [Slot -> S] /\ c \in FreeIn(Without(n, c))
         /\ \A c \in Slot : \A K : n[c].kind \notin K /\ "none" \notin K => Same(n, Without(n, c), K)
         /\ \A k, a : Sent(k, a) \in S /\ FreeIn(n) # {} =>
              /\ Adds(n, k, a) \in [Slot -> S]
              /\ \A K : k \notin K /\ "none" \notin K => Same(n, Adds(n, k, a), K)
              /\ \E s \in Slot : /\ n[s].st = "idle" /\ Adds(n, k, a)[s] = Sent(k, a)
                                 /\ \A c \in Slot : c # s => Adds(n, k, a)[c] = n[c]
<1>1. NoCall \in S /\ NoCall.kind = "none"
  BY NoCallIs DEF Calling
<1>2. ASSUME NEW c \in Slot
      PROVE  /\ Without(n, c) \in [Slot -> S] /\ c \in FreeIn(Without(n, c)) /\ Without(n, c)[c] = NoCall
             /\ \A b \in Slot : b # c => Without(n, c)[b] = n[b]
  BY <1>1, Leaving
<1>3. ASSUME NEW c \in Slot, NEW K, n[c].kind \notin K, "none" \notin K PROVE Same(n, Without(n, c), K)
  BY <1>1, <1>2, <1>3 DEF Same
<1>4. ASSUME NEW k, NEW a, Sent(k, a) \in S, FreeIn(n) # {}
      PROVE  /\ Adds(n, k, a) \in [Slot -> S]
             /\ \A K : k \notin K /\ "none" \notin K => Same(n, Adds(n, k, a), K)
             /\ \E s \in Slot : /\ n[s].st = "idle" /\ Adds(n, k, a)[s] = Sent(k, a)
                                /\ \A c \in Slot : c # s => Adds(n, k, a)[c] = n[c]
  <2> DEFINE m == Adds(n, k, a)
  <2>1. m \in [Slot -> S]
    BY <1>4 DEF Adds, With, Sent
  <2>2. PICK s \in Slot : n[s].st = "idle" /\ m[s] = Sent(k, a) /\ \A c \in Slot : c # s => m[c] = n[c]
    BY <1>4, Placed
  <2> HIDE DEF m
  <2>3. n[s].kind = "none"
    BY <2>2 DEF Calling
  <2>4. m[s].kind = k
    BY <2>2, HeldCallIs
  <2>5. \A K : k \notin K /\ "none" \notin K => Same(n, m, K)
    BY <2>2, <2>3, <2>4 DEF Same
  <2> QED
    BY <2>1, <2>2, <2>5 DEF m
<1> QED
  BY <1>2, <1>3, <1>4
=============================================================================
